---- MODULE Spec2Model ----
(***************************************************************************)
(* s21::list (src/s21_containers/list/s21_list.h): a circular doubly       *)
(* linked ring of ListNode anchored by one sentinel per list.  The heap is *)
(* modelled node by node (next_, prev_, value_), the two list objects A    *)
(* and B by their head_ and size_ fields.  "T" is the function-local       *)
(* tempList of insert_many_front; it exists only inside that call.         *)
(***************************************************************************)
EXTENDS Integers, Sequences, FiniteSets, TLC

\* ---------------------------------------------------------------- bounds
MaxNodes == 3      \* element nodes the insertion operations may hold at once
MaxLen   == 4      \* total length of the initializer lists of InitAlg
MaxVal   == 2      \* element values are 0..MaxVal
MaxArgs  == 2      \* arguments of one insert_many_front call
MaxCalls == 2      \* times the observed call is made in a row
MaxRunNodes == 2   \* element nodes the lists of a longer run may hold at once
MaxPushes == 4     \* values pushed into the queue in one run

Max(a, b) == IF a > b THEN a ELSE b

Null         == 0                    \* nullptr
DefaultValue == 0                    \* value_type{} for the integer element type
Values       == 0..MaxVal
\* addresses: two sentinels, the sentinel of tempList, the element nodes
NodeIds      == 1..(3 + Max(MaxNodes, MaxLen))
Lists        == {"A", "B"}
ListIds      == {"A", "B", "C", "T"}

VARIABLES next_, prev_, value_,   \* ListNode fields, per address
          live,                   \* addresses currently allocated
          swapped,                \* addresses SwapValues has been applied to
          head_, size_,           \* list fields, per list object
          pc, it_last,            \* position inside unique() and its cursor
          iters,                  \* loop iterations of the running unique(), mod 2
          op, pre,                \* the observed call, the heap before it
          calls,                  \* times it has been made
          orig,                   \* the heap before it was first made
          ret,                    \* the cursor it returned, Null for void
          log,                    \* the values pushed into the queue, its pops
          vec,                    \* the vector object: size_, capacity_, buffer_
          tree_,                  \* the keys of the multiset, in order
          obs,                    \* the observed call on the vector or multiset
          mem,                    \* the vector objects and the arrays they own
          qs,                     \* the quick_sort calls in progress, innermost last
          mg                      \* the cursors of the merge in progress

vars == <<next_, prev_, value_, live, swapped, head_, size_, pc, it_last, iters,
          op, pre, calls, orig, ret, log, vec, tree_, obs, mem, qs, mg>>

\* the vector and the multiset
nonList == <<vec, tree_, obs, mem>>

\* what the calls on a list that run in one step leave alone
others == <<nonList, qs, mg>>

\* the heap as one value, so that the member functions are operators on it
Heap == [next_ |-> next_, prev_ |-> prev_, value_ |-> value_,
         live |-> live, swapped |-> swapped, head_ |-> head_, size_ |-> size_]

EmptyHeap == [next_  |-> [n \in NodeIds |-> Null],
              prev_  |-> [n \in NodeIds |-> Null],
              value_ |-> [n \in NodeIds |-> DefaultValue],
              live   |-> {},
              swapped |-> {},
              head_  |-> [l \in ListIds |-> Null],
              size_  |-> [l \in ListIds |-> 0]]

\* operator new: addresses are opaque, the lowest free one is handed out
NewAddr(h) == CHOOSE n \in NodeIds \ h.live : \A m \in NodeIds \ h.live : n <= m

\* number of element nodes allocated (every constructed list owns one sentinel)
ElemCount(h) == Cardinality(h.live) - Cardinality({l \in ListIds : h.head_[l] # Null})

\* operator delete: the address returns to the allocator, its contents are gone
Delete(h, n) == [h EXCEPT !.live = @ \ {n}, !.next_[n] = Null,
                          !.prev_[n] = Null, !.value_[n] = DefaultValue,
                          !.swapped = @ \ {n}]

\* ------------------------------------------------------------- ListNode
\* ListNode(): self-looped node holding value_type{}
NewSentinel(h, n) == [h EXCEPT !.live = @ \cup {n}, !.next_[n] = n,
                               !.prev_[n] = n, !.value_[n] = DefaultValue]

\* ListNode(value): unattached node
NewNode(h, n, v) == [h EXCEPT !.live = @ \cup {n}, !.next_[n] = Null,
                              !.prev_[n] = Null, !.value_[n] = v]

\* AttachPrev without "prev_->next_ = new_node": the old neighbour is not relinked
AttachPrev_NoRelink(h, self, new_node) ==
  LET h1 == [h  EXCEPT !.next_[new_node] = self]
      h2 == [h1 EXCEPT !.prev_[new_node] = h1.prev_[self]]
  IN  [h2 EXCEPT !.prev_[self] = new_node]

\* self->AttachPrev(new_node), statement by statement
AttachPrev(h, self, new_node) ==
  LET h1 == [h  EXCEPT !.next_[new_node] = self]
      h2 == [h1 EXCEPT !.prev_[new_node] = h1.prev_[self]]
      h3 == [h2 EXCEPT !.next_[h2.prev_[self]] = new_node]
  IN  [h3 EXCEPT !.prev_[self] = new_node]

\* the unlinking that leaves prev_ of the successor pointing at self
UnAttach_NoBack(h, self) ==
  LET h1 == [h  EXCEPT !.next_[h.prev_[self]] = h.next_[self]]
      h3 == [h1 EXCEPT !.next_[self] = self]
  IN  [h3 EXCEPT !.prev_[self] = self]

\* self->UnAttach(), statement by statement
UnAttach(h, self) ==
  LET h1 == [h  EXCEPT !.next_[h.prev_[self]] = h.next_[self]]
      h2 == [h1 EXCEPT !.prev_[h1.next_[self]] = h1.prev_[self]]
      h3 == [h2 EXCEPT !.next_[self] = self]
  IN  [h3 EXCEPT !.prev_[self] = self]

\* a->SwapValues(b)
SwapValues(h, a, b) ==
  [h EXCEPT !.value_[a] = h.value_[b], !.value_[b] = h.value_[a],
            !.swapped = @ \cup {a, b}]

\* the exchange without the temporary: prev_ is copied over next_ and back
SwapNextPrev_NoTemp(h, self) ==
  [h EXCEPT !.next_[self] = h.prev_[self]]

\* self->SwapNextPrev()
SwapNextPrev(h, self) ==
  [h EXCEPT !.next_[self] = h.prev_[self], !.prev_[self] = h.next_[self]]

\* ----------------------------------------------------------------- list
begin(h, l) == h.next_[h.head_[l]]
end(h, l)   == h.head_[l]
empty(h, l) == h.size_[l] = 0

\* list(): head_(new node_type{}), size_(0)
Construct(h, l) ==
  LET n == NewAddr(h)
  IN  [NewSentinel(h, n) EXCEPT !.head_[l] = n, !.size_[l] = 0]

\* insert that links the new node behind pos
insert_After(h, l, pos, v) ==
  LET new_node == NewAddr(h)
      h1 == NewNode(h, new_node, v)
      h2 == AttachPrev(h1, h1.next_[pos], new_node)
  IN  [h2 EXCEPT !.size_[l] = @ + 1]

\* insert(pos, value)
insert(h, l, pos, v) ==
  LET new_node == NewAddr(h)
      h1 == NewNode(h, new_node, v)
      h2 == AttachPrev(h1, pos, new_node)
  IN  [h2 EXCEPT !.size_[l] = @ + 1]

\* erase that leaves size_ as it was
erase_NoSizeDec(h, l, pos) ==
  IF pos # end(h, l)
    THEN Delete(UnAttach(h, pos), pos)
    ELSE h

\* erase without the test for end()
erase_NoGuard(h, l, pos) ==
  [Delete(UnAttach(h, pos), pos) EXCEPT !.size_[l] = @ - 1]

\* erase(pos)
erase(h, l, pos) ==
  IF pos # end(h, l)
    THEN [Delete(UnAttach(h, pos), pos) EXCEPT !.size_[l] = @ - 1]
    ELSE h

push_back(h, l, v)  == insert(h, l, end(h, l), v)
push_front(h, l, v) == insert(h, l, begin(h, l), v)
pop_back(h, l)      == erase(h, l, h.prev_[end(h, l)])
pop_front(h, l)     == erase(h, l, begin(h, l))

\* clear(): while (size_ > 0) erase(begin())
RECURSIVE clear(_, _)
clear(h, l) == IF h.size_[l] > 0 THEN clear(erase(h, l, begin(h, l)), l) ELSE h

\* ~list(): clear(); delete head_; head_ = nullptr
Destroy(h, l) ==
  LET h1 == clear(h, l)
  IN  [Delete(h1, h1.head_[l]) EXCEPT !.head_[l] = Null, !.size_[l] = 0]

\* list(std::initializer_list): list() then push_back of every item
RECURSIVE PushAll(_, _, _)
PushAll(h, l, items) ==
  IF items = <<>> THEN h
  ELSE PushAll(push_back(h, l, Head(items)), l, Tail(items))

ConstructFrom(h, l, items) == PushAll(Construct(h, l), l, items)

\* ------------------------------------------------------------ algorithms
\* swap that exchanges the sentinels and leaves the sizes
swap_HeadsOnly(h, l, other) ==
  IF l # other
    THEN [h EXCEPT !.head_[l] = h.head_[other], !.head_[other] = h.head_[l]]
    ELSE h

\* swap(other): std::swap of head_ and of size_
swap(h, l, other) ==
  IF l # other
    THEN [h EXCEPT !.head_[l] = h.head_[other], !.head_[other] = h.head_[l],
                   !.size_[l] = h.size_[other], !.size_[other] = h.size_[l]]
    ELSE h

\* splice that leaves the sentinel of other pointing at the moved nodes
splice_NoReset(h, l, pos, other) ==
  IF ~empty(h, other) THEN
    LET it_current == pos
        it_other   == end(h, other)
        h1 == [h  EXCEPT !.prev_[h.next_[it_other]]   = h.prev_[it_current]]
        h2 == [h1 EXCEPT !.next_[h1.prev_[it_other]]  = it_current]
        h3 == [h2 EXCEPT !.next_[h2.prev_[it_current]] = h2.next_[it_other]]
        h4 == [h3 EXCEPT !.prev_[it_current]          = h3.prev_[it_other]]
        h5 == [h4 EXCEPT !.size_[l]     = @ + h4.size_[other]]
    IN  [h5 EXCEPT !.size_[other] = 0]
  ELSE h

\* splice(pos, other), statement by statement (other may alias l)
splice(h, l, pos, other) ==
  IF ~empty(h, other) THEN
    LET it_current == pos
        it_other   == end(h, other)
        h1 == [h  EXCEPT !.prev_[h.next_[it_other]]   = h.prev_[it_current]]
        h2 == [h1 EXCEPT !.next_[h1.prev_[it_other]]  = it_current]
        h3 == [h2 EXCEPT !.next_[h2.prev_[it_current]] = h2.next_[it_other]]
        h4 == [h3 EXCEPT !.prev_[it_current]          = h3.prev_[it_other]]
        h5 == [h4 EXCEPT !.size_[l]     = @ + h4.size_[other]]
        h6 == [h5 EXCEPT !.size_[other] = 0]
        h7 == [h6 EXCEPT !.next_[h6.head_[other]] = h6.head_[other]]
    IN  [h7 EXCEPT !.prev_[h7.head_[other]] = h7.head_[other]]
  ELSE h

\* list(list &&other): list() then splice(begin(), other)
move_construct(h, l, other) ==
  LET h1 == Construct(h, l)
  IN  splice(h1, l, begin(h1, l), other)

\* the range-for of list(const list &other): push_back of every element
RECURSIVE CopyLoop(_, _, _, _)
CopyLoop(h, l, it, other_end) ==
  IF it # other_end
    THEN CopyLoop(push_back(h, l, h.value_[it]), l, h.next_[it], other_end)
    ELSE h

\* list(const list &other): list() then the range-for
copy_construct(h, l, other) ==
  LET h1 == Construct(h, l)
  IN  CopyLoop(h1, l, begin(h1, other), end(h1, other))

\* move assignment that keeps the former elements of this list
move_assign_NoClear(h, l, other) ==
  IF l # other
    THEN splice(h, l, begin(h, l), other)
    ELSE h

\* operator=(list &&other)
move_assign(h, l, other) ==
  IF l # other
    THEN LET h1 == clear(h, l)
         IN  splice(h1, l, begin(h1, l), other)
    ELSE h

\* the first loop walking the common prefix without assigning
RECURSIVE AssignLoop_NoAssign(_, _, _)
AssignLoop_NoAssign(st, this_end, other_end) ==
  IF st.this_begin # this_end /\ st.other_begin # other_end
    THEN AssignLoop_NoAssign(
           [h |-> st.h,
            this_begin  |-> st.h.next_[st.this_begin],
            other_begin |-> st.h.next_[st.other_begin]],
           this_end, other_end)
    ELSE st

\* operator=(const list &other), first loop: *this_begin = *other_begin over
\* the common prefix; st = [h, this_begin, other_begin]
RECURSIVE AssignLoop(_, _, _)
AssignLoop(st, this_end, other_end) ==
  IF st.this_begin # this_end /\ st.other_begin # other_end
    THEN AssignLoop(
           [h |-> [st.h EXCEPT !.value_[st.this_begin] = st.h.value_[st.other_begin]],
            this_begin  |-> st.h.next_[st.this_begin],
            other_begin |-> st.h.next_[st.other_begin]],
           this_end, other_end)
    ELSE st

\* second loop: erase what this list holds beyond the length of other
RECURSIVE EraseRest(_, _, _, _)
EraseRest(h, l, this_begin, this_end) ==
  IF this_begin # this_end
    THEN LET tmp == this_begin
         IN  EraseRest(erase(h, l, tmp), l, h.next_[this_begin], this_end)
    ELSE h

\* third loop: push_back what other holds beyond the length of this list
RECURSIVE PushRest(_, _, _, _)
PushRest(h, l, other_begin, other_end) ==
  IF other_begin # other_end
    THEN PushRest(push_back(h, l, h.value_[other_begin]), l,
                  h.next_[other_begin], other_end)
    ELSE h

\* operator=(const list &other)
copy_assign(h, l, other) ==
  IF l # other
    THEN LET this_end  == end(h, l)
             other_end == end(h, other)
             st == AssignLoop([h |-> h, this_begin |-> begin(h, l),
                               other_begin |-> begin(h, other)],
                              this_end, other_end)
             h1 == EraseRest(st.h, l, st.this_begin, this_end)
         IN  PushRest(h1, l, st.other_begin, other_end)
    ELSE h

\* the merge step that takes the node of other on a tie as well
MergeIter_TiesFromOther(st, l, other) ==
  IF st.h.value_[st.other_begin] <= st.h.value_[st.this_begin] THEN
    LET tmp == st.other_begin
        nxt == st.h.next_[st.other_begin]
        h1  == UnAttach(st.h, tmp)
        h2  == [h1 EXCEPT !.size_[other] = @ - 1]
        h3  == AttachPrev(h2, st.this_begin, tmp)
    IN  [h |-> [h3 EXCEPT !.size_[l] = @ + 1],
         this_begin |-> st.this_begin, other_begin |-> nxt]
  ELSE [st EXCEPT !.this_begin = st.h.next_[st.this_begin]]

\* the merge step with the comparison the other way round
MergeIter_Flipped(st, l, other) ==
  IF st.h.value_[st.this_begin] < st.h.value_[st.other_begin] THEN
    LET tmp == st.other_begin
        nxt == st.h.next_[st.other_begin]
        h1  == UnAttach(st.h, tmp)
        h2  == [h1 EXCEPT !.size_[other] = @ - 1]
        h3  == AttachPrev(h2, st.this_begin, tmp)
    IN  [h |-> [h3 EXCEPT !.size_[l] = @ + 1],
         this_begin |-> st.this_begin, other_begin |-> nxt]
  ELSE [st EXCEPT !.this_begin = st.h.next_[st.this_begin]]

\* the iteration that moves the value into a new node and frees the old one
MergeIter_Copying(st, l, other) ==
  IF st.h.value_[st.other_begin] < st.h.value_[st.this_begin] THEN
    LET tmp == st.other_begin
        nxt == st.h.next_[st.other_begin]
        new_node == NewAddr(st.h)
        h0  == NewNode(st.h, new_node, st.h.value_[tmp])
        h1  == Delete(UnAttach(h0, tmp), tmp)
        h2  == [h1 EXCEPT !.size_[other] = @ - 1]
        h3  == AttachPrev(h2, st.this_begin, new_node)
    IN  [h |-> [h3 EXCEPT !.size_[l] = @ + 1],
         this_begin |-> st.this_begin, other_begin |-> nxt]
  ELSE [st EXCEPT !.this_begin = st.h.next_[st.this_begin]]

\* the iteration that moves the node and leaves other.size_ as it was
MergeIter_NoOtherSize(st, l, other) ==
  IF st.h.value_[st.other_begin] < st.h.value_[st.this_begin] THEN
    LET tmp == st.other_begin
        nxt == st.h.next_[st.other_begin]
        h1  == UnAttach(st.h, tmp)
        h3  == AttachPrev(h1, st.this_begin, tmp)
    IN  [h |-> [h3 EXCEPT !.size_[l] = @ + 1],
         this_begin |-> st.this_begin, other_begin |-> nxt]
  ELSE [st EXCEPT !.this_begin = st.h.next_[st.this_begin]]

MergeIter(st, l, other) ==
  IF st.h.value_[st.other_begin] < st.h.value_[st.this_begin] THEN
    LET tmp == st.other_begin
        nxt == st.h.next_[st.other_begin]
        h1  == UnAttach(st.h, tmp)
        h2  == [h1 EXCEPT !.size_[other] = @ - 1]
        h3  == AttachPrev(h2, st.this_begin, tmp)
    IN  [h |-> [h3 EXCEPT !.size_[l] = @ + 1],
         this_begin |-> st.this_begin, other_begin |-> nxt]
  ELSE [st EXCEPT !.this_begin = st.h.next_[st.this_begin]]

\* while (this_begin != this_end && other_begin != other_end)
RECURSIVE MergeLoop(_, _, _, _, _)
MergeLoop(st, l, other, this_end, other_end) ==
  IF st.this_begin # this_end /\ st.other_begin # other_end
    THEN MergeLoop(MergeIter(st, l, other), l, other, this_end, other_end)
    ELSE st

\* merge without the test for this == &other
merge_NoGuard(h, l, other) ==
  LET st == MergeLoop([h |-> h, this_begin |-> begin(h, l),
                       other_begin |-> begin(h, other)],
                      l, other, end(h, l), end(h, other))
  IN  splice(st.h, l, end(st.h, l), other)

\* merge(other)
merge(h, l, other) ==
  IF l # other THEN
    LET st == MergeLoop([h |-> h, this_begin |-> begin(h, l),
                         other_begin |-> begin(h, other)],
                        l, other, end(h, l), end(h, other))
    IN  splice(st.h, l, end(st.h, l), other)
  ELSE h

\* the loop of reverse: swap the links of the node, then --it
RECURSIVE ReverseLoop(_, _, _)
ReverseLoop(h, it, end_iterator) ==
  IF it # end_iterator
    THEN LET h1 == SwapNextPrev(h, it)
         IN  ReverseLoop(h1, h1.prev_[it], end_iterator)
    ELSE h

\* reverse that forgets the sentinel
reverse_NoHead(h, l) == ReverseLoop(h, begin(h, l), end(h, l))

\* reverse()
reverse(h, l) ==
  SwapNextPrev(ReverseLoop(h, begin(h, l), end(h, l)), h.head_[l])

\* the loop of insert_many moving the cursor onto each new node
RECURSIVE InsertManyLoop_Advancing(_, _, _, _)
InsertManyLoop_Advancing(st, l, it_current, items) ==
  IF items = <<>> THEN st
  ELSE LET new_node == NewAddr(st.h)
           h1 == NewNode(st.h, new_node, Head(items))
           h2 == AttachPrev(h1, it_current, new_node)
       IN  InsertManyLoop_Advancing(
             [h |-> [h2 EXCEPT !.size_[l] = @ + 1], new_node |-> new_node],
             l, new_node, Tail(items))

\* for (auto item : {args...}): new node, it_current->AttachPrev, ++size_;
\* st = [h, new_node]
RECURSIVE InsertManyLoop(_, _, _, _)
InsertManyLoop(st, l, it_current, items) ==
  IF items = <<>> THEN st
  ELSE LET new_node == NewAddr(st.h)
           h1 == NewNode(st.h, new_node, Head(items))
           h2 == AttachPrev(h1, it_current, new_node)
       IN  InsertManyLoop(
             [h |-> [h2 EXCEPT !.size_[l] = @ + 1], new_node |-> new_node],
             l, it_current, Tail(items))

\* insert_many(pos, args...) with at least one argument (none does not
\* compile): the heap it leaves and the iterator(new_node) it returns
insert_many(h, l, pos, args) ==
  InsertManyLoop([h |-> h, new_node |-> Null], l, pos, args).h
insert_many_return(h, l, pos, args) ==
  InsertManyLoop([h |-> h, new_node |-> Null], l, pos, args).new_node

\* insert_many_back(args...): (push_back(args), ...), left to right
insert_many_back(h, l, args) == PushAll(h, l, args)

\* (tempList.push_front(args), ...): the fold runs left to right
RECURSIVE PushFrontAll(_, _, _)
PushFrontAll(h, l, items) ==
  IF items = <<>> THEN h
  ELSE PushFrontAll(push_front(h, l, Head(items)), l, Tail(items))

\* insert_many_front(args...)
insert_many_front(h, l, args) ==
  LET h1 == Construct(h, "T")
      h2 == PushFrontAll(h1, "T", args)
      h3 == splice(h2, l, begin(h2, l), "T")
  IN  Destroy(h3, "T")

\* ----------------------------------------------------------------- queue
\* list::front() and list::back(): *begin() and *std::prev(end())
front(h, l) == h.value_[begin(h, l)]
back(h, l)  == h.value_[h.prev_[end(h, l)]]

\* s21::queue<T, s21::list<T>>: every member forwards to container_, which
\* is the list object q
queue_front(h, q) == front(h, q)
queue_back(h, q)  == back(h, q)
queue_empty(h, q) == empty(h, q)
queue_size(h, q)  == h.size_[q]
queue_push(h, q, v) == push_back(h, q, v)

\* queue(const queue &), queue(queue &&) and the two operator=
queue_copy_construct(h, q, other) == copy_construct(h, q, other)
queue_move_construct(h, q, other) == move_construct(h, q, other)
queue_copy_assign(h, q, other)    == copy_assign(h, q, other)
queue_move_assign(h, q, other)    == move_assign(h, q, other)

\* the exchange without the temporary: q takes other, other takes q back
queue_swap_NoTmp(h, q, other) ==
  LET h1 == move_assign(h, q, other)
  IN  move_assign(h1, other, q)

\* swap(other): std::swap(container_, other.container_), which for a class
\* without a swap of its own is tmp(std::move(a)); a = std::move(b);
\* b = std::move(tmp); tmp is the list object "T"
queue_swap(h, q, other) ==
  LET h1 == move_construct(h, "T", q)
      h2 == move_assign(h1, q, other)
      h3 == move_assign(h2, other, "T")
  IN  Destroy(h3, "T")

\* pop that takes the element at the back
queue_pop_Back(h, q) == pop_back(h, q)

\* pop(): container_.pop_front()
queue_pop(h, q) == pop_front(h, q)

\* stack<T, Container = list<T>>: push() is container_.push_back(value)
stack_push(h, s, v) == push_back(h, s, v)

\* stack::pop(): container_.pop_back()
stack_pop(h, s) == pop_back(h, s)

\* ------------------------------------------------------------ quick_sort
\* the walk to the pivot that stops one node short
RECURSIVE PivotWalk_OneShort(_, _, _, _)
PivotWalk_OneShort(h, pivot_it, iShift, list_size) ==
  IF iShift + 1 < list_size \div 2
    THEN PivotWalk_OneShort(h, h.next_[pivot_it], iShift + 1, list_size)
    ELSE pivot_it

\* while (iShift < list_size / 2) ++pivot_it, from --left
RECURSIVE PivotWalk(_, _, _, _)
PivotWalk(h, pivot_it, iShift, list_size) ==
  IF iShift < list_size \div 2
    THEN PivotWalk(h, h.next_[pivot_it], iShift + 1, list_size)
    ELSE pivot_it

\* the partition step that leaves tmp_right in place on a value equal to
\* the pivot
PartitionIter_EqualStays(st, pivot) ==
  IF st.h.value_[st.tmp_left] < pivot THEN
    LET s == st.h.next_[st.swap_it]
    IN  [st EXCEPT !.swap_it = s, !.iShift = @ + 1,
                   !.h = SwapValues(st.h, st.tmp_left, s),
                   !.tmp_left = st.h.next_[st.tmp_left]]
  ELSE IF st.h.value_[st.tmp_left] = pivot THEN
    [st EXCEPT !.h = SwapValues(st.h, st.tmp_left, st.h.prev_[st.tmp_right])]
  ELSE [st EXCEPT !.tmp_left = st.h.next_[st.tmp_left]]

\* the partition step without the branch for smaller values
PartitionIter_NoLess(st, pivot) ==
  IF st.h.value_[st.tmp_left] = pivot THEN
    LET r == st.h.prev_[st.tmp_right]
    IN  [st EXCEPT !.tmp_right = r, !.h = SwapValues(st.h, st.tmp_left, r)]
  ELSE [st EXCEPT !.tmp_left = st.h.next_[st.tmp_left]]

\* one iteration of the partition loop;
\* st = [h, swap_it, tmp_left, tmp_right, iShift]
PartitionIter(st, pivot) ==
  IF st.h.value_[st.tmp_left] < pivot THEN
    LET s == st.h.next_[st.swap_it]
    IN  [st EXCEPT !.swap_it = s, !.iShift = @ + 1,
                   !.h = SwapValues(st.h, st.tmp_left, s),
                   !.tmp_left = st.h.next_[st.tmp_left]]
  ELSE IF st.h.value_[st.tmp_left] = pivot THEN
    LET r == st.h.prev_[st.tmp_right]
    IN  [st EXCEPT !.tmp_right = r, !.h = SwapValues(st.h, st.tmp_left, r)]
  ELSE [st EXCEPT !.tmp_left = st.h.next_[st.tmp_left]]

\* while (tmp_left != tmp_right)
RECURSIVE PartitionLoop(_, _)
PartitionLoop(st, pivot) ==
  IF st.tmp_left # st.tmp_right
    THEN PartitionLoop(PartitionIter(st, pivot), pivot)
    ELSE st

\* one iteration of the loop that moves the band of pivot values behind the
\* smaller values; st = [h, swap_it, tmp_right, right_size]
BandIter(st) ==
  [h |-> SwapValues(st.h, st.swap_it, st.tmp_right),
   swap_it |-> st.h.next_[st.swap_it],
   tmp_right |-> st.h.next_[st.tmp_right],
   right_size |-> st.right_size - 1]

\* while (tmp_right != right)
RECURSIVE BandLoop(_, _)
BandLoop(st, right) ==
  IF st.tmp_right # right THEN BandLoop(BandIter(st), right) ELSE st

\* the body of quick_sort up to its two recursive calls
Partition(h, left, right, list_size) ==
  LET pivot_it == PivotWalk(h, h.prev_[left], 0, list_size)
      pivot    == h.value_[pivot_it]
      h1       == SwapValues(h, pivot_it, right)
      p        == PartitionLoop([h |-> h1, swap_it |-> h.prev_[left],
                                 tmp_left |-> left, tmp_right |-> right,
                                 iShift |-> 0], pivot)
      b        == BandLoop([h |-> p.h, swap_it |-> p.h.next_[p.swap_it],
                            tmp_right |-> p.tmp_right,
                            right_size |-> list_size - p.iShift - 1], right)
      h2       == SwapValues(b.h, b.swap_it, right)
  IN  [h |-> h2, pivot_it |-> pivot_it, pivot |-> pivot,
       next_step_left |-> p.swap_it, next_step_left_size |-> p.iShift,
       next_step_right |-> h2.next_[b.swap_it],
       next_step_right_size |-> b.right_size]

\* quick_sort(left, right, list_size)
RECURSIVE quick_sort(_, _, _, _)
quick_sort(h, left, right, list_size) ==
  IF left # right /\ list_size > 1 THEN
    LET p  == Partition(h, left, right, list_size)
        h1 == quick_sort(p.h, left, p.next_step_left, p.next_step_left_size)
    IN  quick_sort(h1, p.next_step_right, right, p.next_step_right_size)
  ELSE h

\* sort()
sort(h, l) == quick_sort(h, begin(h, l), h.prev_[end(h, l)], h.size_[l])

\* ----------------------------------------------------------- observation
\* the nodes met by ++it from n until stop (at most fuel of them)
RECURSIVE NodesFrom(_, _, _, _)
NodesFrom(f, n, stop, fuel) ==
  IF n = stop \/ n = Null \/ fuel = 0 THEN <<>>
  ELSE <<n>> \o NodesFrom(f, f[n], stop, fuel - 1)

\* for (it = begin(); it != end(); ++it): the element nodes, then the values
ElemNodes(h, l) == NodesFrom(h.next_, begin(h, l), end(h, l), Cardinality(NodeIds))
ListSeq(h, l)   == LET ns == ElemNodes(h, l)
                   IN  [i \in 1..Len(ns) |-> h.value_[ns[i]]]

\* steps of ++it (f = next_) or --it (f = prev_) from the sentinel until the
\* sentinel is met again; -1 when it is not met within the heap
StepsAround(h, f, l) ==
  LET ns == NodesFrom(f, f[h.head_[l]], h.head_[l], Cardinality(NodeIds) + 1)
      n  == Len(ns)
      lastn == IF n = 0 THEN h.head_[l] ELSE ns[n]
  IN  IF lastn # Null /\ f[lastn] = h.head_[l] /\ n <= Cardinality(NodeIds)
        THEN n ELSE -1

SeqsUpTo(n) == UNION {[1..k -> Values] : k \in 0..n}

\* ------------------------------------------------------------- the state
Set(h) == /\ next_'  = h.next_
          /\ prev_'  = h.prev_
          /\ value_' = h.value_
          /\ live'   = h.live
          /\ swapped' = h.swapped
          /\ head_'  = h.head_
          /\ size_'  = h.size_

\* the record of a call: which member, on which list, with which arguments
Call(name, l, other, pos, args) ==
  [name |-> name, list |-> l, other |-> other, pos |-> pos, args |-> args]

\* the observed call is entered: it is made once, or repeated unchanged;
\* the heap before it is kept
Record(c) == /\ calls < MaxCalls
             /\ calls = 0 \/ c = op
             /\ calls' = calls + 1
             /\ op' = c
             /\ pre' = Heap
             /\ orig' = IF calls = 0 THEN Heap ELSE orig

\* an observed call that runs to completion in one step
Done(c, h) == /\ pc = "idle"
              /\ Set(h)
              /\ Record(c)
              /\ ret' = Null
              /\ UNCHANGED <<pc, it_last, iters, log, others>>

\* an operation that only builds the lists up, before any observed call
Setup(h) == /\ pc = "idle"
            /\ calls = 0
            /\ Set(h)
            /\ UNCHANGED <<pc, it_last, iters, op, pre, calls, orig, ret, log, others>>

NoCall == Call("none", "A", "A", Null, <<>>)

\* no merge is running: its four iterators do not exist
NoMerge == [this_begin |-> Null, this_end |-> Null,
            other_begin |-> Null, other_end |-> Null]

\* the variables of the lists and of the queue
listVars == <<next_, prev_, value_, live, swapped, head_, size_, pc, it_last,
              iters, op, pre, calls, orig, ret, log, qs, mg>>

StartLists(h) == /\ next_  = h.next_
                 /\ prev_  = h.prev_
                 /\ value_ = h.value_
                 /\ live   = h.live
                 /\ swapped = h.swapped
                 /\ head_  = h.head_
                 /\ size_  = h.size_
                 /\ pc = "idle"
                 /\ it_last = Null
                 /\ iters = 0
                 /\ op = NoCall
                 /\ pre = h
                 /\ calls = 0
                 /\ orig = h
                 /\ ret = Null
                 /\ log = [pushed |-> <<>>, pops |-> 0]
                 /\ qs = <<>>
                 /\ mg = NoMerge

\* s21::vector<int> v;  (size_ = 0, capacity_ = 0, buffer_ = nullptr)
NoVector == [size_ |-> 0, capacity_ |-> 0, buffer_ |-> [i \in {} |-> 0]]

\* s21::multiset<int> m;  (no key; key_at_end is what *end() reads)
NoTree == [keys |-> <<>>, key_at_end |-> DefaultValue]

\* no member of the vector or of the multiset has been called yet
NoLast == [name |-> "none", index |-> 0, value |-> DefaultValue,
           before |-> NoVector, threw |-> FALSE, ret |-> 0]

\* no vector object constructed, no array allocated
NoMem == [obj |-> [v \in {"v", "w"} |->
                    [alive |-> FALSE, size_ |-> 0, capacity_ |-> 0,
                     buffer_ |-> Null]],
          len |-> <<>>, live |-> {}, freed |-> {}, fault |-> "none"]

Start(h) == /\ StartLists(h)
            /\ vec = NoVector
            /\ tree_ = NoTree
            /\ obs = NoLast
            /\ mem = NoMem

\* s21::list<int> A; s21::list<int> B;
Init == Start(Construct(Construct(EmptyHeap, "A"), "B"))

\* s21::list<int> A{a...}; s21::list<int> B{b...};
InitAlg == \E a \in SeqsUpTo(MaxLen) : \E b \in SeqsUpTo(MaxLen - Len(a)) :
             Start(ConstructFrom(ConstructFrom(EmptyHeap, "A", a), "B", b))

\* s21::list<int> A{a...}; s21::list<int> B;
InitOne == \E a \in SeqsUpTo(MaxLen) :
             Start(Construct(ConstructFrom(EmptyHeap, "A", a), "B"))

\* the cursors a caller can hold on list l: its element nodes and end()
Cursors(l) == LET ns == ElemNodes(Heap, l)
              IN  {ns[i] : i \in 1..Len(ns)} \cup {head_[l]}

\* the observed call is made on list A; B is the other list of the call
This == "A"

\* the list objects that are constructed and not yet destroyed
Alive == {l \in Lists : head_[l] # Null}

\* ---------------------------------------------------------------- actions
Insert == \E l \in Alive : \E pos \in Cursors(l) : \E v \in Values :
            /\ ElemCount(Heap) < MaxNodes
            /\ Setup(insert(Heap, l, pos, v))

Erase == \E l \in Alive : \E pos \in Cursors(l) : Setup(erase(Heap, l, pos))

PushBack == \E l \in Alive : \E v \in Values :
            /\ ElemCount(Heap) < MaxNodes
            /\ Setup(push_back(Heap, l, v))

PushFront == \E l \in Alive : \E v \in Values :
            /\ ElemCount(Heap) < MaxNodes
            /\ Setup(push_front(Heap, l, v))

PopBack == \E l \in Alive : Setup(pop_back(Heap, l))

PopFront == \E l \in Alive : Setup(pop_front(Heap, l))

Clear == \E l \in Alive : Setup(clear(Heap, l))

\* the operations as steps of a longer run
InsertOp == \E l \in Alive : \E pos \in Cursors(l) : \E v \in Values :
            /\ ElemCount(Heap) < MaxRunNodes
            /\ Setup(insert(Heap, l, pos, v))

SpliceOp == \E l \in Alive : \E other \in Alive : \E pos \in Cursors(l) :
            /\ Setup(splice(Heap, l, pos, other))

MergeOp == \E l \in Alive : \E other \in Alive :
            /\ Setup(merge(Heap, l, other))

SwapOp == \E l \in Alive : \E other \in Alive :
            /\ Setup(swap(Heap, l, other))

MoveAssign == \E l \in Alive : \E other \in Alive :
            /\ Setup(move_assign(Heap, l, other))

CopyAssign == \E l \in Alive : \E other \in Alive :
            /\ ElemCount(Heap) + Max(0, size_[other] - size_[l]) <= MaxRunNodes
            /\ Setup(copy_assign(Heap, l, other))

\* a list object goes out of scope
Destruct == \E l \in Alive : Setup(Destroy(Heap, l))

\* a list object comes into scope, move-constructed from a living one
MoveConstruct == \E l \in Lists \ Alive : \E other \in Alive :
            /\ Setup(move_construct(Heap, l, other))

Sort == \E l \in {This} :
            /\ Done(Call("sort", l, l, Null, <<>>), sort(Heap, l))

Merge == \E l \in {This} : \E other \in Lists :
            /\ Done(Call("merge", l, other, Null, <<>>), merge(Heap, l, other))

Splice == \E l \in {This} : \E other \in Lists : \E pos \in Cursors(l) :
            /\ Done(Call("splice", l, other, pos, <<>>), splice(Heap, l, pos, other))

Reverse == \E l \in {This} :
            /\ Done(Call("reverse", l, l, Null, <<>>), reverse(Heap, l))

Swap == \E l \in {This} : \E other \in Lists :
            /\ Done(Call("swap", l, other, Null, <<>>), swap(Heap, l, other))

InsertManyFront == \E l \in {This} : \E args \in SeqsUpTo(MaxArgs) :
            /\ ElemCount(Heap) + Len(args) <= MaxNodes
            /\ Done(Call("insert_many_front", l, l, Null, args),
                    insert_many_front(Heap, l, args))

\* insert(pos, value) as the observed call; it returns iterator(new_node)
InsertCall == \E l \in {This} : \E pos \in Cursors(l) : \E v \in Values :
            /\ NodeIds \ live # {}
            /\ pc = "idle"
            /\ Set(insert(Heap, l, pos, v))
            /\ Record(Call("insert", l, l, pos, <<v>>))
            /\ ret' = NewAddr(Heap)
            /\ UNCHANGED <<pc, it_last, iters, log, others>>

\* erase(pos) as the observed call, pos a cursor of the list or end()
EraseCall == \E l \in {This} : \E pos \in Cursors(l) :
            /\ Done(Call("erase", l, l, pos, <<>>), erase(Heap, l, pos))

\* pop_front(), pop_back(), queue::pop() and stack::pop() as the observed
\* call, on a list or adapter of any length, the empty one included
PopFrontCall == \E l \in {This} :
            /\ Done(Call("pop_front", l, l, Null, <<>>), pop_front(Heap, l))

PopBackCall == \E l \in {This} :
            /\ Done(Call("pop_back", l, l, Null, <<>>), pop_back(Heap, l))

QueuePopCall == \E q \in {This} :
            /\ Done(Call("queue_pop", q, q, Null, <<>>), queue_pop(Heap, q))

StackPopCall == \E s \in {This} :
            /\ Done(Call("stack_pop", s, s, Null, <<>>), stack_pop(Heap, s))

\* the members whose observed call removes one element
PopNames == {"pop_front", "pop_back", "queue_pop", "stack_pop"}

\* an insertion that follows the observed pops: push_back(v), which is also
\* queue::push(v) and stack::push(v)
PushAfterPop == \E l \in {This} : \E v \in Values :
            /\ pc = "idle"
            /\ calls >= 1
            /\ op.name \in PopNames
            /\ NodeIds \ live # {}
            /\ Set(stack_push(Heap, l, v))
            /\ op' = Call("push_after_pop", l, l, Null, <<v>>)
            /\ pre' = Heap
            /\ UNCHANGED <<pc, it_last, iters, calls, orig, ret, log, others>>

\* insert_many(pos, args...) as the observed call
InsertManyCall == \E l \in {This} : \E pos \in Cursors(l) :
                  \E args \in SeqsUpTo(MaxArgs) \ {<<>>} :
            /\ Cardinality(live) + Len(args) <= Cardinality(NodeIds)
            /\ pc = "idle"
            /\ Set(insert_many(Heap, l, pos, args))
            /\ Record(Call("insert_many", l, l, pos, args))
            /\ ret' = insert_many_return(Heap, l, pos, args)
            /\ UNCHANGED <<pc, it_last, iters, log, others>>

InsertManyBackCall == \E l \in {This} : \E args \in SeqsUpTo(MaxArgs) :
            /\ Cardinality(live) + Len(args) <= Cardinality(NodeIds)
            /\ Done(Call("insert_many_back", l, l, Null, args),
                    insert_many_back(Heap, l, args))

\* the whole-container operations as the observed call; a constructor makes
\* the new list object "C"
MoveConstructCall == \E other \in Lists :
            /\ head_["C"] = Null
            /\ NodeIds \ live # {}
            /\ \/ Done(Call("move_construct", "C", other, Null, <<>>),
                        move_construct(Heap, "C", other))
               \/ Done(Call("queue_move_construct", "C", other, Null, <<>>),
                        queue_move_construct(Heap, "C", other))

CopyConstructCall == \E other \in Lists :
            /\ head_["C"] = Null
            /\ Cardinality(live) + 1 + size_[other] <= Cardinality(NodeIds)
            /\ \/ Done(Call("copy_construct", "C", other, Null, <<>>),
                        copy_construct(Heap, "C", other))
               \/ Done(Call("queue_copy_construct", "C", other, Null, <<>>),
                        queue_copy_construct(Heap, "C", other))

MoveAssignCall == \E l \in {This} : \E other \in Lists :
            \/ Done(Call("move_assign", l, other, Null, <<>>),
                     move_assign(Heap, l, other))
            \/ Done(Call("queue_move_assign", l, other, Null, <<>>),
                     queue_move_assign(Heap, l, other))

CopyAssignCall == \E l \in {This} : \E other \in Lists :
            /\ Cardinality(live) + Max(0, size_[other] - size_[l])
                  <= Cardinality(NodeIds)
            /\ \/ Done(Call("copy_assign", l, other, Null, <<>>),
                        copy_assign(Heap, l, other))
               \/ Done(Call("queue_copy_assign", l, other, Null, <<>>),
                        queue_copy_assign(Heap, l, other))

QueueSwapCall == \E q \in {This} : \E other \in Lists :
            /\ NodeIds \ live # {}
            /\ Done(Call("queue_swap", q, other, Null, <<>>),
                    queue_swap(Heap, q, other))

\* queue::push(value); the value is entered in the log
QueuePush == \E q \in {This} : \E v \in Values :
            /\ Len(log.pushed) < MaxPushes
            /\ NodeIds \ live # {}
            /\ pc = "idle"
            /\ Set(queue_push(Heap, q, v))
            /\ log' = [log EXCEPT !.pushed = Append(@, v)]
            /\ UNCHANGED <<pc, it_last, iters, op, pre, calls, orig, ret, others>>

\* queue::pop() on a queue that is not empty; the pop is entered in the log
QueuePop == \E q \in {This} :
            /\ ~queue_empty(Heap, q)
            /\ pc = "idle"
            /\ Set(queue_pop(Heap, q))
            /\ log' = [log EXCEPT !.pops = @ + 1]
            /\ UNCHANGED <<pc, it_last, iters, op, pre, calls, orig, ret, others>>

\* unique(): entry, up to the initialisation of the for loop
UniqueCall == \E l \in {This} :
            /\ pc = "idle"
            /\ Record(Call("unique", l, l, Null, <<>>))
            /\ IF ~empty(Heap, l)
                 THEN pc' = "unique" /\ it_last' = begin(Heap, l)
                 ELSE UNCHANGED <<pc, it_last>>
            /\ iters' = 0
            /\ ret' = Null
            /\ UNCHANGED <<next_, prev_, value_, live, swapped, head_, size_, log,
                           others>>

\* the loop body advancing the cursor after an erase as well
UniqueIter_AdvanceAfterErase ==
  /\ pc = "unique"
  /\ it_last # end(Heap, op.list)
  /\ LET it_next == next_[it_last]
     IN  IF it_next = Null
           THEN pc' = "idle" /\ it_last' = Null
                /\ UNCHANGED <<next_, prev_, value_, live, swapped, head_, size_>>
         ELSE IF value_[it_last] = value_[it_next]
           THEN /\ Set(erase(Heap, op.list, it_next))
                /\ it_last' = erase(Heap, op.list, it_next).next_[it_last]
                /\ UNCHANGED pc
         ELSE it_last' = it_next /\ UNCHANGED
                <<pc, next_, prev_, value_, live, swapped, head_, size_>>
  /\ iters' = IF next_[it_last] = Null THEN 0 ELSE 1 - iters
  /\ UNCHANGED <<op, pre, calls, orig, ret, log, others>>

\* unique(): one pass through the body of the for loop
UniqueIter ==
  /\ pc = "unique"
  /\ it_last # end(Heap, op.list)
  /\ LET it_next == next_[it_last]
     IN  IF it_next = Null
           THEN pc' = "idle" /\ it_last' = Null
                /\ UNCHANGED <<next_, prev_, value_, live, swapped, head_, size_>>
         ELSE IF value_[it_last] = value_[it_next]
           THEN Set(erase(Heap, op.list, it_next)) /\ UNCHANGED <<pc, it_last>>
         ELSE it_last' = it_next /\ UNCHANGED
                <<pc, next_, prev_, value_, live, swapped, head_, size_>>
  /\ iters' = IF next_[it_last] = Null THEN 0 ELSE 1 - iters
  /\ UNCHANGED <<op, pre, calls, orig, ret, log, others>>

\* ---- sort() as the steps of quick_sort: qs is the stack of its calls, each
\* with its arguments, its local variables and the place it has reached
Frame(left, right, list_size) ==
  [at |-> "entry", left |-> left, right |-> right, list_size |-> list_size,
   swap_it |-> Null, pivot_it |-> Null, pivot |-> DefaultValue,
   tmp_left |-> Null, tmp_right |-> Null, iShift |-> 0,
   next_step_left |-> Null, next_step_left_size |-> 0,
   next_step_right |-> Null, next_step_right_size |-> 0,
   entry_value_ |-> value_]

\* the call that is running
Top == qs[Len(qs)]

SetTop(f) == [qs EXCEPT ![Len(qs)] = f]

\* what a step of quick_sort leaves alone
QsFrame == UNCHANGED <<it_last, op, pre, calls, orig, ret, log, nonList, mg>>

\* sort(): quick_sort(begin(), --end(), size_) is called
SortCall == \E l \in {This} :
  /\ pc = "idle"
  /\ Record(Call("sort", l, l, Null, <<>>))
  /\ pc' = "sort"
  /\ qs' = <<Frame(begin(Heap, l), prev_[end(Heap, l)], size_[l])>>
  /\ iters' = 0
  /\ ret' = Null
  /\ UNCHANGED <<next_, prev_, value_, live, swapped, head_, size_, it_last,
                 log, nonList, mg>>

\* the test of the range, the walk to the pivot and its swap with *right
QsEnter ==
  /\ pc = "sort" /\ Top.at = "entry"
  /\ IF Top.left # Top.right /\ Top.list_size > 1
       THEN LET pivot_it == PivotWalk(Heap, prev_[Top.left], 0, Top.list_size)
                h == [Heap EXCEPT !.swapped = {}]
            IN  /\ Set(SwapValues(h, pivot_it, Top.right))
                /\ qs' = SetTop([Top EXCEPT !.at = "partition",
                                            !.swap_it = prev_[Top.left],
                                            !.pivot_it = pivot_it,
                                            !.pivot = value_[pivot_it],
                                            !.tmp_left = Top.left,
                                            !.tmp_right = Top.right,
                                            !.iShift = 0,
                                            !.entry_value_ = value_])
       ELSE /\ qs' = SetTop([Top EXCEPT !.at = "return"])
            /\ UNCHANGED <<next_, prev_, value_, live, swapped, head_, size_>>
  /\ UNCHANGED <<pc, iters>>
  /\ QsFrame

\* while (tmp_left != tmp_right): one pass, or the loop ends
QsPartition ==
  /\ pc = "sort" /\ Top.at = "partition"
  /\ IF Top.tmp_left # Top.tmp_right
       THEN LET st == PartitionIter([h |-> Heap, swap_it |-> Top.swap_it,
                                     tmp_left |-> Top.tmp_left,
                                     tmp_right |-> Top.tmp_right,
                                     iShift |-> Top.iShift], Top.pivot)
            IN  /\ Set(st.h)
                /\ qs' = SetTop([Top EXCEPT !.swap_it = st.swap_it,
                                            !.tmp_left = st.tmp_left,
                                            !.tmp_right = st.tmp_right,
                                            !.iShift = st.iShift])
                /\ iters' = 1 - iters
       ELSE /\ qs' = SetTop([Top EXCEPT
                     !.at = "band",
                     !.next_step_left = Top.swap_it,
                     !.next_step_left_size = Top.iShift,
                     !.next_step_right_size = Top.list_size - Top.iShift - 1,
                     !.swap_it = next_[Top.swap_it]])
            /\ iters' = 0
            /\ UNCHANGED <<next_, prev_, value_, live, swapped, head_, size_>>
  /\ UNCHANGED pc
  /\ QsFrame

\* while (tmp_right != right): one pass, or the loop ends and the pivot
\* value goes back from *right
QsBand ==
  /\ pc = "sort" /\ Top.at = "band"
  /\ IF Top.tmp_right # Top.right
       THEN LET st == BandIter([h |-> Heap, swap_it |-> Top.swap_it,
                                tmp_right |-> Top.tmp_right,
                                right_size |-> Top.next_step_right_size])
            IN  /\ Set(st.h)
                /\ qs' = SetTop([Top EXCEPT
                                   !.swap_it = st.swap_it,
                                   !.tmp_right = st.tmp_right,
                                   !.next_step_right_size = st.right_size])
                /\ iters' = 1 - iters
       ELSE /\ Set(SwapValues(Heap, Top.swap_it, Top.right))
            /\ qs' = SetTop([Top EXCEPT !.at = "left",
                                        !.swap_it = next_[Top.swap_it],
                                        !.next_step_right = next_[Top.swap_it]])
            /\ iters' = 0
  /\ UNCHANGED pc
  /\ QsFrame

\* quick_sort(left, next_step_left, next_step_left_size) is called
QsCallLeft ==
  /\ pc = "sort" /\ Top.at = "left"
  /\ qs' = Append(SetTop([Top EXCEPT !.at = "right"]),
                  Frame(Top.left, Top.next_step_left, Top.next_step_left_size))
  /\ UNCHANGED <<next_, prev_, value_, live, swapped, head_, size_, pc, iters>>
  /\ QsFrame

\* quick_sort(next_step_right, right, next_step_right_size) is called
QsCallRight ==
  /\ pc = "sort" /\ Top.at = "right"
  /\ qs' = Append(SetTop([Top EXCEPT !.at = "return"]),
                  Frame(Top.next_step_right, Top.right,
                        Top.next_step_right_size))
  /\ UNCHANGED <<next_, prev_, value_, live, swapped, head_, size_, pc, iters>>
  /\ QsFrame

\* a call of quick_sort returns; the outermost returns to sort()
QsReturn ==
  /\ pc = "sort" /\ Top.at = "return"
  /\ qs' = SubSeq(qs, 1, Len(qs) - 1)
  /\ pc' = IF Len(qs) = 1 THEN "idle" ELSE "sort"
  /\ UNCHANGED <<next_, prev_, value_, live, swapped, head_, size_, iters>>
  /\ QsFrame

NextQs == \/ QsEnter \/ QsPartition \/ QsBand
          \/ QsCallLeft \/ QsCallRight \/ QsReturn

NextSort == SortCall \/ NextQs


\* unique(): the loop condition fails, the call returns
UniqueReturn ==
  /\ pc = "unique"
  /\ it_last = end(Heap, op.list)
  /\ pc' = "idle"
  /\ it_last' = Null
  /\ iters' = 0
  /\ UNCHANGED <<next_, prev_, value_, live, swapped, head_, size_,
                 op, pre, calls, orig, ret, log, others>>

NextCrud == \/ Insert \/ Erase \/ PushBack \/ PushFront
            \/ PopBack \/ PopFront \/ Clear

NextAlg == \/ Sort \/ Merge \/ Splice \/ Reverse \/ Swap \/ InsertManyFront
           \/ UniqueCall \/ UniqueIter \/ UniqueReturn

NextSeq == \/ InsertOp \/ Erase \/ PopBack \/ PopFront \/ Clear
           \/ SpliceOp \/ MergeOp \/ SwapOp \/ MoveAssign \/ CopyAssign
           \/ Destruct \/ MoveConstruct

NextQueue == QueuePush \/ QueuePop

NextMany == InsertManyCall \/ InsertManyBackCall

NextWhole == \/ MoveConstructCall \/ CopyConstructCall
             \/ MoveAssignCall \/ CopyAssignCall
             \/ Swap \/ QueueSwapCall

NextUnique == UniqueCall \/ UniqueIter \/ UniqueReturn

\* ---- merge(other) as the steps of its loop: mg holds its four iterators
\* what a step of merge leaves alone
MergeFrame == UNCHANGED <<swapped, it_last, iters, orig, ret, log, nonList, qs>>

\* merge(other) is entered: with this == &other it returns at once, else the
\* four iterators are taken and the loop is reached
MergeCall == \E l \in {This} : \E other \in Lists :
  /\ pc = "idle"
  /\ Record(Call("merge", l, other, Null, <<>>))
  /\ IF l # other
       THEN /\ pc' = "merge"
            /\ mg' = [this_begin |-> begin(Heap, l), this_end |-> end(Heap, l),
                      other_begin |-> begin(Heap, other),
                      other_end |-> end(Heap, other)]
       ELSE UNCHANGED <<pc, mg>>
  /\ ret' = Null
  /\ UNCHANGED <<next_, prev_, value_, live, swapped, head_, size_, it_last,
                 iters, log, nonList, qs>>

\* the loop condition holds: one iteration, the comparison and its branch
MergeStep ==
  /\ pc = "merge"
  /\ mg.this_begin # mg.this_end /\ mg.other_begin # mg.other_end
  /\ LET st == MergeIter([h |-> Heap, this_begin |-> mg.this_begin,
                          other_begin |-> mg.other_begin], op.list, op.other)
     IN  /\ next_' = st.h.next_ /\ prev_' = st.h.prev_
         /\ value_' = st.h.value_ /\ live' = st.h.live
         /\ head_' = st.h.head_ /\ size_' = st.h.size_
         /\ mg' = [mg EXCEPT !.this_begin = st.this_begin,
                             !.other_begin = st.other_begin]
  /\ UNCHANGED <<pc, op, pre, calls>>
  /\ MergeFrame

\* the loop condition fails: splice(end(), other), and the call returns
MergeReturn ==
  /\ pc = "merge"
  /\ ~(mg.this_begin # mg.this_end /\ mg.other_begin # mg.other_end)
  /\ LET h == splice(Heap, op.list, end(Heap, op.list), op.other)
     IN  /\ next_' = h.next_ /\ prev_' = h.prev_
         /\ value_' = h.value_ /\ live' = h.live
         /\ head_' = h.head_ /\ size_' = h.size_
  /\ pc' = "idle"
  /\ mg' = NoMerge
  /\ UNCHANGED <<op, pre, calls>>
  /\ MergeFrame

NextMerge == MergeCall \/ MergeStep \/ MergeReturn

NextElem == InsertCall \/ EraseCall

NextPop == \/ PushBack \/ PopFront
           \/ PopFrontCall \/ PopBackCall \/ QueuePopCall \/ StackPopCall
           \/ PushAfterPop

\* insert, erase, push, pop and clear on two lists that start empty
SpecCrud == Init /\ [][NextCrud]_vars

\* the algorithms on two lists built from initializer lists
SpecAlg == InitAlg /\ [][NextAlg]_vars

\* any run of element operations, splices, merges, swaps, assignments,
\* destructions and move constructions on two list objects
SpecSeq == Init /\ [][NextSeq]_vars

\* one copy, move or swap of a whole list or queue, the lists built from
\* initializer lists
SpecWhole == InitAlg /\ [][NextWhole]_vars

\* one insert_many or insert_many_back on a list built from an initializer
\* list
SpecMany == InitOne /\ [][NextMany]_vars

\* any run of push and pop on a queue that starts empty
SpecQueue == Init /\ [][NextQueue]_vars

\* one insert or one erase on a list built from an initializer list
SpecElem == InitAlg /\ [][NextElem]_vars

\* the pops of the list, of the queue and of the stack on lists that were
\* never filled or were filled and emptied again, and a push after them
SpecPop == Init /\ [][NextPop]_vars

\* sort() alone, step by step; a call that has started keeps running
SpecSort == InitOne /\ [][NextSort]_vars /\ WF_vars(NextQs)

\* merge(other) alone, one loop iteration at a time
SpecMerge == InitAlg /\ [][NextMerge]_vars

\* unique() alone; a call that has started keeps running (no suspension)
SpecUnique == InitAlg /\ [][NextUnique]_vars
                      /\ WF_vars(UniqueIter) /\ WF_vars(UniqueReturn)

\* ================================================================ claims
\* helpers of the formulas below
IsSorted(s)   == \A i \in 1..(Len(s) - 1) : s[i] <= s[i + 1]
Count(s, v)   == Cardinality({i \in 1..Len(s) : s[i] = v})
SameBag(s, t) == \A v \in Values : Count(s, v) = Count(t, v)
Rev(s)        == [i \in 1..Len(s) |-> s[Len(s) + 1 - i]]
Idle          == pc = "idle"
\* the nodes of the ring of l: the sentinel and the element nodes
RingNodes(h, l) == LET ns == ElemNodes(h, l)
                   IN  {ns[i] : i \in 1..Len(ns)} \cup {h.head_[l]}
\* I1: both links of every node of the ring are answered by the neighbour
DoublyConsistent(h, l) ==
  \A n \in RingNodes(h, l) :
     /\ h.next_[n] \in h.live /\ h.prev_[n] \in h.live
     /\ h.prev_[h.next_[n]] = n
     /\ h.next_[h.prev_[n]] = n
\* I2: the walk of next_ and the walk of prev_ both close after size_ steps
SizeMatchesWalk(h, l) ==
  /\ StepsAround(h, h.next_, l) = h.size_[l]
  /\ StepsAround(h, h.prev_, l) = h.size_[l]

\* C1: after every insert, erase, push_back, push_front, pop_back, pop_front
\* and clear the ring of each list is doubly consistent, and the walk of next
\* and the walk of prev from the sentinel first return to it after size() steps.
C1_RingAfterEveryOperation ==
  \A l \in Lists : DoublyConsistent(Heap, l) /\ SizeMatchesWalk(Heap, l)

\* C1 witness: both lists hold elements after inserts, and an address below a
\* live one is free, so an erase, a pop or a clear has removed a node
C1_Witness ==
  /\ size_["A"] >= 1 /\ size_["B"] >= 1
  /\ \E n \in NodeIds \ live : \E m \in live : n < m

\* the sequences of values and of nodes before and after the observed call
PreSeq(l)   == ListSeq(pre, l)
CurSeq(l)   == ListSeq(Heap, l)
PreNodes(l) == ElemNodes(pre, l)
CurNodes(l) == ElemNodes(Heap, l)
Range(s)    == {s[i] : i \in 1..Len(s)}
\* the index of cursor pos in the node sequence ns, Len(ns) + 1 for end()
PosIndex(ns, pos) ==
  IF \E i \in 1..Len(ns) : ns[i] = pos
    THEN CHOOSE i \in 1..Len(ns) : ns[i] = pos
    ELSE Len(ns) + 1
\* the first node of every maximal run of equal adjacent values
RECURSIVE RunHeads(_, _, _)
RunHeads(ns, val, i) ==
  IF i > Len(ns) THEN <<>>
  ELSE IF i > 1 /\ val[ns[i]] = val[ns[i - 1]] THEN RunHeads(ns, val, i + 1)
  ELSE <<ns[i]>> \o RunHeads(ns, val, i + 1)
\* an address below a live one is free: some node has been deallocated
SomeNodeFreed == \E n \in NodeIds \ live : \E m \in live : n < m

\* C2: after sort() the sequence from begin() to end() is non-decreasing and
\* holds each value as many times as before, and size() is what it was.
C2_SortOrdersAndKeepsValues ==
  (Idle /\ op.name = "sort") =>
     /\ IsSorted(CurSeq(op.list))
     /\ SameBag(CurSeq(op.list), PreSeq(op.list))
     /\ Len(CurSeq(op.list)) = Len(PreSeq(op.list))
     /\ size_[op.list] = pre.size_[op.list]

\* C2 witness: an unsorted list of at least four elements, with a duplicate
\* and three distinct values, has been sorted
C2_Witness ==
  /\ Idle /\ op.name = "sort" /\ calls = 1
  /\ Len(PreSeq(op.list)) >= 4
  /\ ~IsSorted(PreSeq(op.list))
  /\ Cardinality(Range(PreSeq(op.list))) = 3
  /\ CurSeq(op.list) # PreSeq(op.list)

\* C3: for two distinct ascending lists, after A.merge(B) list A is ascending
\* and holds the union with multiplicity of both, its size is the sum of the
\* two sizes, and B is empty with size 0.
C3_MergeOfAscendingLists ==
  (Idle /\ op.name = "merge" /\ op.other # op.list
        /\ IsSorted(PreSeq(op.list)) /\ IsSorted(PreSeq(op.other))) =>
     /\ IsSorted(CurSeq(op.list))
     /\ \A v \in Values : Count(CurSeq(op.list), v) =
                            Count(PreSeq(op.list), v) + Count(PreSeq(op.other), v)
     /\ size_[op.list] = pre.size_[op.list] + pre.size_[op.other]
     /\ Len(CurSeq(op.list)) = size_[op.list]
     /\ size_[op.other] = 0
     /\ CurSeq(op.other) = <<>>

\* C3 witness: two ascending lists of two elements each were merged, an
\* element of B going before one of A and an element of B staying behind
C3_Witness ==
  /\ Idle /\ op.name = "merge" /\ op.other # op.list /\ calls = 1
  /\ IsSorted(PreSeq(op.list)) /\ IsSorted(PreSeq(op.other))
  /\ Len(PreSeq(op.list)) = 2 /\ Len(PreSeq(op.other)) = 2
  /\ PreSeq(op.other)[1] < PreSeq(op.list)[2]
  /\ PreSeq(op.other)[2] > PreSeq(op.list)[2]

C5_SelfSpliceIsNoOp ==
  (Idle /\ op.name = "splice" /\ op.other = op.list) => Heap = pre

\* C6: insert_many_front(a1, ..., ak) on a list holding L leaves a1, ..., ak
\* followed by L, the arguments in the order given, and size() grows by k.
C6_InsertManyFrontKeepsOrder ==
  (Idle /\ op.name = "insert_many_front") =>
     /\ CurSeq(op.list) = op.args \o PreSeq(op.list)
     /\ size_[op.list] = pre.size_[op.list] + Len(op.args)

\* C7: every call of unique() returns.
C7_UniqueTerminates == (pc = "unique") ~> (pc = "idle")

C9_UniqueIdempotent ==
  (Idle /\ op.name = "unique" /\ calls >= 2) =>
     /\ CurNodes(op.list) = PreNodes(op.list)
     /\ CurSeq(op.list) = PreSeq(op.list)
     /\ size_[op.list] = pre.size_[op.list]

\* C9 witness: the second unique() returned on a list of at least two
\* elements from which the first one had removed a node
C9_Witness ==
  /\ Idle /\ op.name = "unique" /\ calls = 2
  /\ Len(CurSeq(op.list)) >= 2
  /\ SomeNodeFreed

\* C10: reverse() turns e1..en into en..e1 by exchanging next_ and prev_ of
\* every element node and of the sentinel; size() is unchanged, no node is
\* allocated or freed, no value changes, so a cursor keeps its node and value.
C10_ReverseSwapsLinks ==
  (Idle /\ op.name = "reverse") =>
     /\ CurNodes(op.list) = Rev(PreNodes(op.list))
     /\ CurSeq(op.list) = Rev(PreSeq(op.list))
     /\ \A n \in RingNodes(pre, op.list) :
           next_[n] = pre.prev_[n] /\ prev_[n] = pre.next_[n]
     /\ size_ = pre.size_
     /\ head_ = pre.head_
     /\ live = pre.live
     /\ value_ = pre.value_

\* C10 witness: a list of at least three elements that reads differently
\* backwards has been reversed
C10_Witness ==
  /\ Idle /\ op.name = "reverse" /\ calls = 1
  /\ Len(PreSeq(op.list)) >= 3
  /\ Rev(PreSeq(op.list)) # PreSeq(op.list)

\* C11: reverse() called twice in a row restores the order of the elements and
\* every next_ and prev_ link, on the empty and the single-element list as on
\* any other; nothing else of the heap differs either.
C11_ReverseTwiceRestores ==
  (Idle /\ op.name = "reverse" /\ calls = 2) =>
     /\ CurSeq(op.list) = ListSeq(orig, op.list)
     /\ CurNodes(op.list) = ElemNodes(orig, op.list)
     /\ next_ = orig.next_
     /\ prev_ = orig.prev_
     /\ value_ = orig.value_
     /\ head_ = orig.head_
     /\ size_ = orig.size_
     /\ live = orig.live

\* C11 witness: the second reverse() returned on a list of at least three
\* elements that the first one had left reading differently
C11_Witness ==
  /\ Idle /\ op.name = "reverse" /\ calls = 2
  /\ Len(ListSeq(orig, op.list)) >= 3
  /\ PreSeq(op.list) # ListSeq(orig, op.list)

\* C12: erase(end()) changes nothing on any list, the empty one included:
\* size, sequence, every link and the set of allocated nodes stay as they
\* were, so no node is freed.
C12_EraseEndIsNoOp ==
  (Idle /\ op.name = "erase" /\ op.pos = pre.head_[op.list]) =>
     /\ size_ = pre.size_
     /\ CurSeq(op.list) = PreSeq(op.list)
     /\ next_ = pre.next_
     /\ prev_ = pre.prev_
     /\ value_ = pre.value_
     /\ head_ = pre.head_
     /\ live = pre.live

\* C12 witness: erase(end()) was called on a list of at least two elements
C12_Witness ==
  /\ Idle /\ op.name = "erase" /\ op.pos = pre.head_[op.list] /\ calls = 1
  /\ pre.size_[op.list] >= 2

\* C18: insert(pos, value) allocates exactly one node, which holds value and
\* is linked immediately before pos; size() grows by one, the cursor returned
\* is at the new node, and the former elements keep their values and their
\* relative order.
C18_InsertBeforePos ==
  (Idle /\ op.name = "insert") =>
     LET pn == PreNodes(op.list)
         k  == PosIndex(pn, op.pos)
     IN  /\ ret \notin pre.live
         /\ live = pre.live \cup {ret}
         /\ value_[ret] = op.args[1]
         /\ next_[ret] = op.pos /\ prev_[op.pos] = ret
         /\ CurNodes(op.list) =
              SubSeq(pn, 1, k - 1) \o <<ret>> \o SubSeq(pn, k, Len(pn))
         /\ size_[op.list] = pre.size_[op.list] + 1
         /\ \A l \in Lists \ {op.list} : size_[l] = pre.size_[l]
         /\ \A n \in pre.live : value_[n] = pre.value_[n]

\* C18 witness: a value was inserted between two elements that both differ
\* from it
C18_Witness ==
  /\ Idle /\ op.name = "insert" /\ calls = 1
  /\ Len(PreNodes(op.list)) >= 2
  /\ op.pos = PreNodes(op.list)[2]
  /\ PreSeq(op.list)[1] # op.args[1] /\ PreSeq(op.list)[2] # op.args[1]
  /\ Len(CurSeq(op.list)) = Len(PreSeq(op.list)) + 1

\* C19: erase(pos) with pos at an element removes exactly that node and
\* frees it; size() drops by one, and every other node stays allocated, in
\* the ring, with its value and in its order, so cursors at them stay valid.
C19_EraseRemovesOneNode ==
  (Idle /\ op.name = "erase" /\ op.pos # pre.head_[op.list]) =>
     LET pn == PreNodes(op.list)
         k  == PosIndex(pn, op.pos)
     IN  /\ live = pre.live \ {op.pos}
         /\ CurNodes(op.list) = SubSeq(pn, 1, k - 1) \o SubSeq(pn, k + 1, Len(pn))
         /\ size_[op.list] = pre.size_[op.list] - 1
         /\ \A l \in Lists \ {op.list} : size_[l] = pre.size_[l]
         /\ \A n \in live : value_[n] = pre.value_[n]
         /\ DoublyConsistent(Heap, op.list)
         /\ SizeMatchesWalk(Heap, op.list)

\* C19 witness: the middle element of a list of at least three was erased
C19_Witness ==
  /\ Idle /\ op.name = "erase" /\ calls = 1
  /\ Len(PreNodes(op.list)) >= 3
  /\ op.pos = PreNodes(op.list)[2]
  /\ Len(CurNodes(op.list)) = Len(PreNodes(op.list)) - 1

\* C13: merge(other) with other the list itself changes nothing: sequence,
\* size, every link and the set of allocated nodes are as before the call.
C13_SelfMergeIsNoOp ==
  (Idle /\ op.name = "merge" /\ op.other = op.list) =>
     /\ CurSeq(op.list) = PreSeq(op.list)
     /\ CurNodes(op.list) = PreNodes(op.list)
     /\ size_ = pre.size_
     /\ next_ = pre.next_
     /\ prev_ = pre.prev_
     /\ value_ = pre.value_
     /\ head_ = pre.head_
     /\ live = pre.live

\* C13 witness: a list of at least two elements was merged with itself
C13_Witness ==
  /\ Idle /\ op.name = "merge" /\ op.other = op.list /\ calls = 1
  /\ pre.size_[op.list] >= 2

\* the subsequence of the node sequence s made of the nodes in the set ns
Restrict(s, ns) == SelectSeq(s, LAMBDA n : n \in ns)

\* C14: merge is stable. For two distinct ascending lists, the nodes that
\* were in this list keep their relative order, the nodes that were in other
\* keep theirs, and of two nodes with equal values the one from this list
\* comes before the one from other.
C14_MergeIsStable ==
  (Idle /\ op.name = "merge" /\ op.other # op.list
        /\ IsSorted(PreSeq(op.list)) /\ IsSorted(PreSeq(op.other))) =>
     LET cn == CurNodes(op.list)
         a  == PreNodes(op.list)
         b  == PreNodes(op.other)
     IN  /\ Restrict(cn, Range(a)) = a
         /\ Restrict(cn, Range(b)) = b
         /\ value_ = pre.value_
         /\ \A x \in Range(a) : \A y \in Range(b) :
               value_[x] = value_[y] => PosIndex(cn, x) < PosIndex(cn, y)

\* C14 witness: two ascending lists of two elements each were merged, a value
\* being held by both and other holding a smaller value as well
C14_Witness ==
  /\ Idle /\ op.name = "merge" /\ op.other # op.list /\ calls = 1
  /\ IsSorted(PreSeq(op.list)) /\ IsSorted(PreSeq(op.other))
  /\ Len(PreSeq(op.list)) = 2 /\ Len(PreSeq(op.other)) = 2
  /\ PreSeq(op.other)[1] < PreSeq(op.list)[1]
  /\ PreSeq(op.other)[2] = PreSeq(op.list)[1]

\* I4: size_ is 0 exactly when the sentinel is linked to itself both ways
EmptyIffSelfLoop(h, l) ==
  h.size_[l] = 0 <=> /\ h.next_[h.head_[l]] = h.head_[l]
                     /\ h.prev_[h.head_[l]] = h.head_[l]
\* I1 to I4 of list l; the first return of either walk to the sentinel after
\* size_ steps is I2 and I3 together
RingInvariants(h, l) ==
  /\ DoublyConsistent(h, l)
  /\ SizeMatchesWalk(h, l)
  /\ EmptyIffSelfLoop(h, l)

\* C15: splice, merge, reverse, unique, sort and swap, called with other
\* distinct from this list, leave I1 to I4 holding on both lists, during
\* unique() as well as after it; and merge of two distinct lists, sorted or
\* not, leaves this list with the values of both by multiplicity and other
\* empty.
C15_AlgorithmsKeepRingInvariants ==
  /\ (/\ op.name \in {"splice", "merge", "reverse", "unique", "sort", "swap"}
      /\ op.name \in {"splice", "merge", "swap"} => op.other # op.list) =>
        \A l \in {op.list, op.other} : RingInvariants(Heap, l)
  /\ (Idle /\ op.name = "merge" /\ op.other # op.list) =>
        /\ \A v \in Values : Count(CurSeq(op.list), v) =
                               Count(PreSeq(op.list), v) + Count(PreSeq(op.other), v)
        /\ size_[op.list] = Len(CurNodes(op.list))
        /\ size_[op.other] = 0
        /\ CurNodes(op.other) = <<>>

\* C15 witness: two lists of two elements, neither of them ascending, were
\* merged
C15_Witness ==
  /\ Idle /\ op.name = "merge" /\ op.other # op.list /\ calls = 1
  /\ Len(PreSeq(op.list)) = 2 /\ Len(PreSeq(op.other)) = 2
  /\ ~IsSorted(PreSeq(op.list)) /\ ~IsSorted(PreSeq(op.other))
  /\ size_[op.list] = 4

\* C16: after every insert, erase, splice, merge, swap, move construction
\* and move assignment, in any run, no element node is reachable from the
\* sentinels of two lists, and size() of each list is the number of element
\* nodes reachable from its sentinel.
C16_ListsOwnDisjointNodes ==
  /\ \A l1 \in Alive : \A l2 \in Alive \ {l1} :
        /\ head_[l1] # head_[l2]
        /\ Range(CurNodes(l1)) \cap RingNodes(Heap, l2) = {}
  /\ \A l \in Alive :
        /\ size_[l] = Len(CurNodes(l))
        /\ size_[l] = Cardinality(Range(CurNodes(l)))
        /\ StepsAround(Heap, next_, l) = size_[l]

\* C16 witness: both lists hold elements and list A has the sentinel with the
\* higher address, which a swap or a move construction has given it
C16_Witness ==
  /\ Alive = Lists
  /\ head_["A"] > head_["B"]
  /\ size_["A"] >= 1 /\ size_["B"] >= 1

\* C17: in any run of insertions, erase, pop, clear, splice, merge, move and
\* copy assignment, every allocated node is the sentinel or an element of a
\* living list and every node of a ring is allocated, so none is leaked and
\* none is used after it was freed; once all lists are destroyed no node is
\* left allocated.
C17_EveryNodeFreedOnce ==
  /\ live = UNION {RingNodes(Heap, l) : l \in Alive}
  /\ \A l \in Alive : DoublyConsistent(Heap, l)
  /\ Alive = {} => live = {}

\* C20: sort() permutes values only: every next_ and prev_ link, the set of
\* allocated nodes, the sentinels and the sizes are as before the call, so a
\* cursor keeps its place in the ring; SwapValues is applied to element nodes
\* of the sorted list only, never to a sentinel, and the values outside the
\* list are untouched.
C20_SortPermutesValuesOnly ==
  (Idle /\ op.name = "sort") =>
     /\ next_ = pre.next_
     /\ prev_ = pre.prev_
     /\ live = pre.live
     /\ head_ = pre.head_
     /\ size_ = pre.size_
     /\ CurNodes(op.list) = PreNodes(op.list)
     /\ swapped \subseteq Range(PreNodes(op.list))
     /\ swapped \cap {head_[l] : l \in Lists} = {}
     /\ \A n \in NodeIds \ Range(PreNodes(op.list)) : value_[n] = pre.value_[n]
     /\ SameBag(CurSeq(op.list), PreSeq(op.list))

\* C20 witness: a list of at least three elements was sorted, values were
\* swapped and the first node holds another value than before
C20_Witness ==
  /\ Idle /\ op.name = "sort" /\ calls = 1
  /\ Len(PreNodes(op.list)) >= 3
  /\ swapped # {}
  /\ value_[PreNodes(op.list)[1]] # pre.value_[PreNodes(op.list)[1]]

\* C21: in every state of every run, for every living list, size() == 0,
\* empty(), begin() == end() and the sentinel linked to itself both ways are
\* all true or all false.
C21_EmptinessTestsAgree ==
  \A l \in Alive :
     LET bySize  == size_[l] = 0
         byEmpty == empty(Heap, l)
         byIter  == begin(Heap, l) = end(Heap, l)
         byLinks == next_[head_[l]] = head_[l] /\ prev_[head_[l]] = head_[l]
     IN  /\ bySize <=> byEmpty
         /\ bySize <=> byIter
         /\ bySize <=> byLinks

\* C21 witness: after an exchange of the sentinels list A is empty and list B
\* holds two elements
C21_Witness ==
  /\ Alive = Lists
  /\ head_["A"] > head_["B"]
  /\ size_["A"] = 0 /\ size_["B"] = 2

\* C22: the queue is first in, first out. After any run of push and of pop
\* on a non-empty queue, size() is the number of pushes minus the number of
\* pops, empty() holds exactly when size() is 0, and on a non-empty queue
\* front() is the earliest value pushed and not yet popped and back() is the
\* value pushed last.
C22_QueueIsFifo ==
  LET q     == This
      n     == Len(log.pushed)
      first == log.pops + 1
  IN  /\ queue_size(Heap, q) = n - log.pops
      /\ queue_empty(Heap, q) <=> queue_size(Heap, q) = 0
      /\ ~queue_empty(Heap, q) =>
            /\ queue_front(Heap, q) = log.pushed[first]
            /\ queue_back(Heap, q) = log.pushed[n]

\* C22 witness: after three pushes or more and a pop the queue holds two
\* values or more, the one popped and the ones at front and back all different
C22_Witness ==
  /\ Len(log.pushed) >= 3 /\ log.pops >= 1
  /\ queue_size(Heap, This) >= 2
  /\ queue_front(Heap, This) # queue_back(Heap, This)
  /\ log.pushed[1] # queue_front(Heap, This)
  /\ log.pushed[1] # queue_back(Heap, This)

\* the element nodes a list object had before the call, none if the call is
\* what constructs it
FormerNodes(l) == IF pre.head_[l] = Null THEN <<>> ELSE PreNodes(l)
MoveNames == {"move_construct", "move_assign",
              "queue_move_construct", "queue_move_assign"}
CopyNames == {"copy_construct", "copy_assign",
              "queue_copy_construct", "queue_copy_assign"}
SwapNames == {"swap", "queue_swap"}
\* every field of the heap is as before the call
HeapAsBefore ==
  /\ next_ = pre.next_ /\ prev_ = pre.prev_ /\ value_ = pre.value_
  /\ live = pre.live /\ head_ = pre.head_ /\ size_ = pre.size_

\* C23: move construction and move assignment, of a list and of a queue,
\* leave the destination holding the former sequence of the source in the
\* same order and the source empty with size 0; the former elements of the
\* destination are freed; move assignment of a list to itself changes
\* nothing.
C23_MoveTakesTheSequence ==
  /\ (Idle /\ op.name \in MoveNames /\ op.other # op.list) =>
        /\ CurSeq(op.list) = PreSeq(op.other)
        /\ size_[op.list] = pre.size_[op.other]
        /\ CurSeq(op.other) = <<>>
        /\ size_[op.other] = 0
        /\ empty(Heap, op.other)
        /\ Range(FormerNodes(op.list)) \cap live = {}
        /\ live = (pre.live \ Range(FormerNodes(op.list))) \cup {head_[op.list]}
  /\ (Idle /\ op.name \in MoveNames /\ op.other = op.list) => HeapAsBefore

\* C23 witness: a list of two different values was move-assigned to a list
\* that held an element
C23_Witness ==
  /\ Idle /\ op.name = "move_assign" /\ op.other # op.list /\ calls = 1
  /\ pre.size_[op.list] >= 1
  /\ Len(PreSeq(op.other)) = 2
  /\ PreSeq(op.other)[1] # PreSeq(op.other)[2]
  /\ size_[op.list] = 2

\* C24: copy construction and copy assignment, of a list and of a queue,
\* leave the destination with the values of the source in the same order and
\* with its size, whether the destination was shorter, as long or longer;
\* the source keeps its nodes, values and links, no node belongs to both, and
\* copy assignment of a list to itself changes nothing.
C24_CopyEqualsTheSource ==
  /\ (Idle /\ op.name \in CopyNames /\ op.other # op.list) =>
        /\ CurSeq(op.list) = PreSeq(op.other)
        /\ size_[op.list] = pre.size_[op.other]
        /\ size_[op.list] = Len(CurNodes(op.list))
        /\ CurNodes(op.other) = PreNodes(op.other)
        /\ CurSeq(op.other) = PreSeq(op.other)
        /\ size_[op.other] = pre.size_[op.other]
        /\ \A n \in RingNodes(pre, op.other) :
              next_[n] = pre.next_[n] /\ prev_[n] = pre.prev_[n]
        /\ RingNodes(Heap, op.list) \cap RingNodes(Heap, op.other) = {}
  /\ (Idle /\ op.name \in CopyNames /\ op.other = op.list) => HeapAsBefore

\* C24 witness: a list of two elements was copy-assigned to a list of one
\* element that held another value than the first of the two
C24_Witness ==
  /\ Idle /\ op.name = "copy_assign" /\ op.other # op.list /\ calls = 1
  /\ Len(PreSeq(op.list)) = 1 /\ Len(PreSeq(op.other)) = 2
  /\ PreSeq(op.list)[1] # PreSeq(op.other)[1]
  /\ size_[op.list] = 2

\* C25: swap exchanges the contents of two lists or two queues: each has the
\* former sequence and size of the other; a second swap restores both, and
\* the swap of a container with itself leaves its sequence, its size and its
\* nodes as they were.
C25_SwapExchangesContents ==
  /\ (Idle /\ op.name \in SwapNames /\ op.other # op.list) =>
        /\ CurSeq(op.list) = PreSeq(op.other)
        /\ CurSeq(op.other) = PreSeq(op.list)
        /\ size_[op.list] = pre.size_[op.other]
        /\ size_[op.other] = pre.size_[op.list]
        /\ calls = 2 => /\ CurSeq(op.list) = ListSeq(orig, op.list)
                        /\ CurSeq(op.other) = ListSeq(orig, op.other)
                        /\ size_ = orig.size_
  /\ (Idle /\ op.name \in SwapNames /\ op.other = op.list) =>
        /\ CurSeq(op.list) = PreSeq(op.list)
        /\ CurNodes(op.list) = PreNodes(op.list)
        /\ size_ = pre.size_

\* C25 witness: two queues of different lengths that read differently were
\* swapped twice
C25_Witness ==
  /\ Idle /\ op.name = "queue_swap" /\ op.other # op.list /\ calls = 2
  /\ Len(CurSeq(op.list)) >= 2 /\ Len(CurSeq(op.other)) = 1
  /\ CurSeq(op.list)[1] # CurSeq(op.other)[1]

\* the heap after insert(pos, a1); ...; insert(pos, ak)
RECURSIVE InsertEach(_, _, _, _)
InsertEach(h, l, pos, items) ==
  IF items = <<>> THEN h
  ELSE InsertEach(insert(h, l, pos, Head(items)), l, pos, Tail(items))
\* the heap after push_back(a1); ...; push_back(ak)
RECURSIVE PushBackEach(_, _, _)
PushBackEach(h, l, items) ==
  IF items = <<>> THEN h
  ELSE PushBackEach(push_back(h, l, Head(items)), l, Tail(items))

\* C26: insert_many(pos, a1..ak) leaves the list that insert(pos, a1); ...;
\* insert(pos, ak) leaves, and insert_many_back(a1..ak) the list that
\* push_back(a1); ...; push_back(ak) leaves; the arguments stand together in
\* the order given, before pos or at the end.
C26_BulkEqualsRepeatedInsert ==
  /\ (Idle /\ op.name = "insert_many") =>
        LET k == PosIndex(PreNodes(op.list), op.pos)
            e == InsertEach(pre, op.list, op.pos, op.args)
        IN  /\ CurNodes(op.list) = ElemNodes(e, op.list)
            /\ CurSeq(op.list) = ListSeq(e, op.list)
            /\ next_ = e.next_ /\ prev_ = e.prev_ /\ value_ = e.value_
            /\ live = e.live /\ size_ = e.size_ /\ head_ = e.head_
            /\ CurSeq(op.list) = SubSeq(PreSeq(op.list), 1, k - 1) \o op.args
                   \o SubSeq(PreSeq(op.list), k, Len(PreSeq(op.list)))
  /\ (Idle /\ op.name = "insert_many_back") =>
        LET e == PushBackEach(pre, op.list, op.args)
        IN  /\ CurNodes(op.list) = ElemNodes(e, op.list)
            /\ next_ = e.next_ /\ prev_ = e.prev_ /\ value_ = e.value_
            /\ live = e.live /\ size_ = e.size_ /\ head_ = e.head_
            /\ CurSeq(op.list) = PreSeq(op.list) \o op.args

\* C26 witness: two different values were inserted by insert_many between
\* two elements
C26_Witness ==
  /\ Idle /\ op.name = "insert_many" /\ calls = 1
  /\ Len(op.args) = 2 /\ op.args[1] # op.args[2]
  /\ Len(PreNodes(op.list)) >= 2
  /\ op.pos = PreNodes(op.list)[2]
  /\ size_[op.list] = pre.size_[op.list] + 2

\* C27: insert_many(pos, a1, ..., ak) with k >= 1 returns a cursor at the
\* first node it inserted, the one holding a1.
C27_InsertManyReturnsFirst ==
  (Idle /\ op.name = "insert_many") =>
     LET k == PosIndex(PreNodes(op.list), op.pos)
     IN  /\ ret = CurNodes(op.list)[k]
         /\ value_[ret] = op.args[1]

\* ---------------------------------------------------------------------------
\* s21::vector: size_, capacity_ and the array buffer_ of capacity_ slots,
\* indexed from 0 as in the source
\* ---------------------------------------------------------------------------

MaxVecLen == 3

\* a slot of "new value_type[n]" that no element was written to yet
Unset == 0 - 1

\* what an iterator variable holds before it is set (nullptr)
NoIterator == 0 - 1

\* vector(std::initializer_list<value_type> const &init)
vector_construct(init) ==
  [size_ |-> Len(init), capacity_ |-> Len(init),
   buffer_ |-> [i \in 0..(Len(init) - 1) |-> init[i + 1]]]

\* the elements of the vector, buffer_[0] .. buffer_[size_ - 1]
Contents(v) == [i \in 1..v.size_ |-> v.buffer_[i - 1]]

ReallocVector(v, new_capacity) ==
  [v EXCEPT !.capacity_ = new_capacity,
            !.buffer_ = [i \in 0..(new_capacity - 1) |->
                           IF i < v.size_ THEN v.buffer_[i] ELSE Unset]]

\* max_size() is far above every capacity reached here
reserve(v, new_cap) ==
  IF new_cap <= v.capacity_ THEN v ELSE ReallocVector(v, new_cap)

\* std::copy(first, last, d_first) as a loop of assignments from the front
RECURSIVE CopyForward(_, _, _, _)
CopyForward(buf, first, last, d_first) ==
  IF first >= last THEN buf
  ELSE CopyForward([buf EXCEPT ![d_first] = buf[first]],
                   first + 1, last, d_first + 1)

\* std::copy(first, last, d_first) as one memmove of the whole range
CopyMove(buf, first, last, d_first) ==
  [i \in DOMAIN buf |->
     IF d_first <= i /\ i < d_first + (last - first)
     THEN buf[first + (i - d_first)] ELSE buf[i]]

\* std::copy requires d_first outside [first, last); when a call breaks that,
\* the library does either of the two, by the element type
CopyHows == {"memmove", "forward"}

std_copy(buf, first, last, d_first, how) ==
  IF how = "memmove" THEN CopyMove(buf, first, last, d_first)
  ELSE CopyForward(buf, first, last, d_first)

\* the outcome of a call: the vector after it, whether it threw
\* std::out_of_range, and the index or the element it returned
Returned(v, r) == [v |-> v, threw |-> FALSE, ret |-> r]
Thrown(v) == [v |-> v, threw |-> TRUE, ret |-> NoIterator]

\* insert(const_iterator pos, value_type &&value) and
\* insert(const_iterator pos, const_reference value), index = pos - begin()
vector_insert(v, index, value, how) ==
  IF index > v.size_ THEN Thrown(v)
  ELSE LET r == IF v.size_ = v.capacity_
                THEN ReallocVector(v, IF v.size_ # 0 THEN v.size_ * 2 ELSE 1)
                ELSE v
           shifted == std_copy(r.buffer_, index, r.size_, index + 1, how)
       IN  Returned([r EXCEPT !.buffer_ = [shifted EXCEPT ![index] = value],
                              !.size_ = r.size_ + 1], index)

\* the loop of insert(const_iterator pos, Args &&...args); an exception
\* leaves the loop
RECURSIVE InsertItems(_, _, _, _)
InsertItems(st, id, args, how) ==
  IF args = <<>> \/ st.threw THEN st
  ELSE InsertItems(vector_insert(st.v, id, Head(args), how),
                   id + 1, Tail(args), how)

\* insert(const_iterator pos, Args &&...args): the overload that a call
\* insert(pos, x) with a non-const lvalue x selects
vector_insert_args(v, index, args, how) ==
  InsertItems(Returned(reserve(v, v.capacity_ + Len(args)), NoIterator),
              index, args, how)

vector_erase(v, index, how) ==
  IF index >= v.size_ THEN Thrown(v)
  ELSE LET kept == std_copy(v.buffer_, 0, index, 0, how)
           closed == std_copy(kept, index + 1, v.size_, index, how)
       IN  Returned([v EXCEPT !.buffer_ = closed, !.size_ = v.size_ - 1],
                    index)

vector_at(v, pos) ==
  IF pos >= v.size_ THEN Thrown(v) ELSE Returned(v, v.buffer_[pos])

vector_subscript(v, pos) == vector_at(v, pos)

vector_front(v) ==
  IF v.size_ = 0 THEN Thrown(v) ELSE Returned(v, v.buffer_[0])

vector_back(v) ==
  IF v.size_ = 0 THEN Thrown(v) ELSE Returned(v, v.buffer_[v.size_ - 1])

vector_pop_back(v) ==
  Returned(IF v.size_ # 0 THEN [v EXCEPT !.size_ = v.size_ - 1] ELSE v,
           NoIterator)

\* push_back that grows the capacity by one slot
vector_push_back_GrowByOne(v, value) ==
  LET r == IF v.size_ = v.capacity_ THEN reserve(v, v.size_ + 1) ELSE v
  IN  Returned([r EXCEPT !.buffer_[v.size_] = value, !.size_ = v.size_ + 1],
               NoIterator)

\* push_back(const_reference value) and push_back(value_type &&value)
vector_push_back(v, value) ==
  LET r == IF v.size_ = v.capacity_
           THEN reserve(v, IF v.size_ # 0 THEN v.size_ * 2 ELSE 1)
           ELSE v
  IN  Returned([r EXCEPT !.buffer_[v.size_] = value, !.size_ = v.size_ + 1],
               NoIterator)

\* push_back(Args &&...args): the overload that a call push_back(x) with a
\* non-const lvalue x selects; it returns end() - 1
RECURSIVE vector_push_back_args(_, _)
vector_push_back_args(v, args) ==
  IF args = <<>> THEN Returned(v, v.size_ - 1)
  ELSE vector_push_back_args(vector_push_back(v, Head(args)).v, Tail(args))

\* s21::vector<int> v{a...};
InitVector == /\ StartLists(Construct(Construct(EmptyHeap, "A"), "B"))
              /\ \E init \in SeqsUpTo(MaxVecLen) : vec = vector_construct(init)
              /\ tree_ = NoTree
              /\ obs = NoLast
              /\ mem = NoMem

\* v.reserve(n), before the observed call
VecReserve == /\ obs.name = "none"
              /\ \E n \in 0..(MaxVecLen + 1) : vec' = reserve(vec, n)
              /\ UNCHANGED <<listVars, tree_, obs, mem>>

\* v.pop_back(), before the observed call
VecShorten == /\ obs.name = "none"
              /\ vec.size_ # 0
              /\ vec' = vector_pop_back(vec).v
              /\ UNCHANGED <<listVars, tree_, obs, mem>>

\* one call on the vector, observed: its arguments, the vector before it
\* and its outcome
VecCall(name, index, value, r) ==
  /\ obs.name = "none"
  /\ vec' = r.v
  /\ obs' = [name |-> name, index |-> index, value |-> value,
              before |-> vec, threw |-> r.threw, ret |-> r.ret]
  /\ UNCHANGED <<listVars, tree_, mem>>

\* the positions a caller can form: buffer_ .. buffer_ + capacity_
Positions == 0..vec.capacity_

\* v.insert(v.begin() + index, value) with value an rvalue or a const lvalue
VecInsert == \E index \in Positions : \E value \in Values : \E how \in CopyHows :
               VecCall("insert", index, value,
                       vector_insert(vec, index, value, how))

\* int x = value; v.insert(v.begin() + index, x);
VecInsertLvalue ==
  \E index \in Positions : \E value \in Values : \E how \in CopyHows :
    VecCall("insert", index, value,
            vector_insert_args(vec, index, <<value>>, how))

VecErase == \E index \in Positions : \E how \in CopyHows :
              VecCall("erase", index, DefaultValue,
                      vector_erase(vec, index, how))

VecAt == \E pos \in 0..(MaxVecLen + 1) :
           VecCall("at", pos, DefaultValue, vector_at(vec, pos))

VecSubscript == \E pos \in 0..(MaxVecLen + 1) :
                  VecCall("operator[]", pos, DefaultValue,
                          vector_subscript(vec, pos))

VecFront == VecCall("front", 0, DefaultValue, vector_front(vec))

VecBack == VecCall("back", 0, DefaultValue, vector_back(vec))

VecPopBack == VecCall("pop_back", 0, DefaultValue, vector_pop_back(vec))

\* v.push_back(value), with value an rvalue or a const lvalue, or a
\* non-const lvalue
VecPushBack == \E value \in Values :
                 \/ VecCall("push_back", 0, value,
                            vector_push_back(vec, value))
                 \/ VecCall("push_back", 0, value,
                            vector_push_back_args(vec, <<value>>))

\* v.reserve(n) as the observed call
VecReserveCall == \E n \in 0..(MaxVecLen + 1) :
                    VecCall("reserve", n, DefaultValue,
                            Returned(reserve(vec, n), NoIterator))

NextVector == \/ VecReserve
              \/ VecShorten
              \/ VecPushBack
              \/ VecReserveCall
              \/ VecInsert
              \/ VecInsertLvalue
              \/ VecErase
              \/ VecAt
              \/ VecSubscript
              \/ VecFront
              \/ VecBack
              \/ VecPopBack

SpecVector == InitVector /\ [][NextVector]_vars

\* C28: insert(pos, value) at an index <= size() puts value at the index,
\* keeps the elements before it in place, moves those at or after it one slot
\* right in their order, adds 1 to size() and returns the index of the value
C28_InsertShiftsRight ==
  (obs.name = "insert" /\ obs.index <= obs.before.size_) =>
    LET b == Contents(obs.before)
        a == Contents(vec)
    IN  /\ ~obs.threw
        /\ Len(a) = Len(b) + 1
        /\ a[obs.index + 1] = obs.value
        /\ \A k \in 1..obs.index : a[k] = b[k]
        /\ \A k \in (obs.index + 1)..Len(b) : a[k + 1] = b[k]
        /\ obs.ret = obs.index

\* C29: at and operator[] at pos >= size(), front and back on an empty vector,
\* insert at an index > size() and erase at an index >= size() throw
\* std::out_of_range and leave size, capacity and elements as they were;
\* pop_back on an empty vector changes nothing
Misused ==
  \/ obs.name \in {"at", "operator[]"} /\ obs.index >= obs.before.size_
  \/ obs.name \in {"front", "back"} /\ obs.before.size_ = 0
  \/ obs.name = "insert" /\ obs.index > obs.before.size_
  \/ obs.name = "erase" /\ obs.index >= obs.before.size_

AsBefore == /\ vec.size_ = obs.before.size_
            /\ vec.capacity_ = obs.before.capacity_
            /\ Contents(vec) = Contents(obs.before)

C29_MisuseThrowsAndChangesNothing ==
  /\ Misused => (obs.threw /\ AsBefore)
  /\ (obs.name = "pop_back" /\ obs.before.size_ = 0) =>
       (~obs.threw /\ AsBefore)

\* C32: push_back with size == capacity reallocates to capacity 1 when size
\* is 0 and to 2 * size otherwise, keeps the elements in order and puts the
\* value at index size; with size < capacity the capacity and the other slots
\* of the buffer are as before; reserve(n) with n <= capacity changes nothing
C32_PushBackGrowsByDoubling ==
  /\ obs.name = "push_back" =>
       LET b == obs.before
       IN  /\ ~obs.threw
           /\ vec.size_ = b.size_ + 1
           /\ \A i \in 0..(b.size_ - 1) : vec.buffer_[i] = b.buffer_[i]
           /\ vec.buffer_[b.size_] = obs.value
           /\ b.size_ = b.capacity_ =>
                vec.capacity_ = (IF b.size_ = 0 THEN 1 ELSE 2 * b.size_)
           /\ b.size_ < b.capacity_ =>
                /\ vec.capacity_ = b.capacity_
                /\ \A i \in 0..(b.capacity_ - 1) :
                     i # b.size_ => vec.buffer_[i] = b.buffer_[i]
  /\ (obs.name = "reserve" /\ obs.index <= obs.before.capacity_) =>
       (~obs.threw /\ vec = obs.before)

\* a push_back that reallocated a full vector of two elements
C32_Witness ==
  /\ obs.name = "push_back"
  /\ obs.before.size_ = 2 /\ obs.before.capacity_ = 2
  /\ vec.size_ = 3 /\ vec.capacity_ = 4

\* ---------------------------------------------------------------------------
\* s21::multiset over RedBlackTree<Key>: the keys in order, and the key that
\* the end node holds; iterators are positions 1 .. Len(keys), End after them
\* ---------------------------------------------------------------------------

MaxKeys == 3

\* RedBlackTree::End()
tree_End(t) == Len(t.keys) + 1

\* RedBlackTree::LowerBound(key): the first position whose key is not less
\* than key, End() when there is none
tree_LowerBound(t, key) ==
  LET at == {i \in 1..Len(t.keys) : t.keys[i] >= key}
  IN  IF at = {} THEN tree_End(t)
      ELSE CHOOSE i \in at : \A j \in at : i <= j

\* RedBlackTree::Insert(value): the key goes after the keys not greater
tree_Insert(t, value) ==
  LET k == Cardinality({i \in 1..Len(t.keys) : t.keys[i] <= value})
  IN  [t EXCEPT !.keys = SubSeq(t.keys, 1, k) \o <<value>> \o
                         SubSeq(t.keys, k + 1, Len(t.keys))]

\* operator* of the tree's iterator; at End() it reads the end node's key
tree_Deref(t, it) == IF it = tree_End(t) THEN t.key_at_end ELSE t.keys[it]

multiset_end(t) == tree_End(t)

multiset_lower_bound(t, key) == tree_LowerBound(t, key)

multiset_insert(t, value) == tree_Insert(t, value)

\* the while loop of count
RECURSIVE CountLoop(_, _, _, _)
CountLoop(t, key, lower_iterator, result_count) ==
  IF lower_iterator # multiset_end(t) /\ tree_Deref(t, lower_iterator) = key
  THEN CountLoop(t, key, lower_iterator + 1, result_count + 1)
  ELSE result_count

\* count that stops at the first key found, as for a set
multiset_count_AtMostOne(t, key) ==
  IF tree_Deref(t, multiset_lower_bound(t, key)) # key THEN 0 ELSE 1

multiset_count(t, key) ==
  LET lower_iterator == multiset_lower_bound(t, key)
  IN  IF tree_Deref(t, lower_iterator) # key THEN 0
      ELSE CountLoop(t, key, lower_iterator, 0)

\* s21::multiset<int> m;  the end node holds some key
InitMultiset ==
  /\ StartLists(Construct(Construct(EmptyHeap, "A"), "B"))
  /\ vec = NoVector
  /\ \E e \in Values : tree_ = [NoTree EXCEPT !.key_at_end = e]
  /\ obs = NoLast
  /\ mem = NoMem

\* m.insert(value), before the observed call
MsInsert == /\ obs.name = "none"
            /\ Len(tree_.keys) < MaxKeys
            /\ \E value \in Values : tree_' = multiset_insert(tree_, value)
            /\ UNCHANGED <<listVars, vec, obs, mem>>

\* m.count(key), observed
MsCount == /\ obs.name = "none"
           /\ \E key \in Values :
                obs' = [name |-> "count", index |-> 0, value |-> key,
                        before |-> tree_, threw |-> FALSE,
                        ret |-> multiset_count(tree_, key)]
           /\ UNCHANGED <<listVars, vec, tree_, mem>>

NextMultiset == MsInsert \/ MsCount

SpecMultiset == InitMultiset /\ [][NextMultiset]_vars

MaxArrays == 3
MaxVecCap == 3

VecIds == {"v", "w"}

\* a vector object with its member initializers, or one moved from
ZeroVector == [alive |-> TRUE, size_ |-> 0, capacity_ |-> 0, buffer_ |-> Null]

\* the address the next new[] returns
NewArray(m) == Len(m.len) + 1

\* new value_type[n]
Allocate(m, n) == [m EXCEPT !.len = Append(@, n),
                            !.live = @ \cup {NewArray(m)}]

\* undefined behaviour was reached; the first one is kept
Fault(m, what) == IF m.fault = "none" THEN [m EXCEPT !.fault = what] ELSE m

\* delete[] p
Free(m, p) ==
  IF p = Null THEN m
  ELSE IF p \in m.live
       THEN [m EXCEPT !.live = @ \ {p}, !.freed = @ \cup {p}]
       ELSE Fault(m, "array freed twice")

\* reads or writes of p[first] .. p[last - 1]
Access(m, p, first, last) ==
  IF first >= last THEN m
  ELSE IF p = Null THEN Fault(m, "access through nullptr")
  ELSE IF p \notin m.live THEN Fault(m, "access to a freed array")
  ELSE IF last > m.len[p] THEN Fault(m, "access outside the array")
  ELSE m

\* vector()
mem_vector(m, v) == [m EXCEPT !.obj[v] = ZeroVector]

\* explicit vector(size_type size)
mem_vector_sized(m, v, size) ==
  LET a == IF size > 0 THEN Allocate(m, size) ELSE m
  IN  [a EXCEPT !.obj[v] = [alive |-> TRUE, size_ |-> size,
                            capacity_ |-> size,
                            buffer_ |-> IF size > 0 THEN NewArray(m)
                                        ELSE Null]]

\* vector(std::initializer_list<value_type> const &init), n = init.size()
mem_vector_init(m, v, n) ==
  [Allocate(m, n) EXCEPT !.obj[v] = [alive |-> TRUE, size_ |-> n,
                                     capacity_ |-> n,
                                     buffer_ |-> NewArray(m)]]

\* vector(const vector &rhs)
mem_copy_construct(m, v, rhs) ==
  LET r   == m.obj[rhs]
      a   == IF r.size_ > 0 THEN Allocate(m, r.capacity_) ELSE m
      buf == IF r.size_ > 0 THEN NewArray(m) ELSE Null
      rd  == Access(a, r.buffer_, 0, r.size_)
      wr  == Access(rd, buf, 0, r.size_)
  IN  [wr EXCEPT !.obj[v] = [alive |-> TRUE, size_ |-> r.size_,
                             capacity_ |-> r.capacity_, buffer_ |-> buf]]

\* vector(vector &&rhs)
mem_move_construct(m, v, rhs) ==
  [m EXCEPT !.obj[v] = m.obj[rhs], !.obj[rhs] = ZeroVector]

\* ~vector()
mem_destroy(m, v) ==
  [Free(m, m.obj[v].buffer_) EXCEPT !.obj[v] = [ZeroVector EXCEPT
                                                  !.alive = FALSE]]

mem_swap(m, v, other) ==
  [m EXCEPT !.obj[v] = m.obj[other], !.obj[other] = m.obj[v]]

\* operator=(vector &&rhs)
mem_move_assign(m, v, rhs) ==
  IF v = rhs THEN m
  ELSE LET s == mem_swap(m, v, rhs)
       IN  [Free(s, s.obj[rhs].buffer_) EXCEPT !.obj[rhs] = ZeroVector]

\* operator=(const vector &rhs)
mem_copy_assign(m, v, rhs) ==
  IF v = rhs THEN m
  ELSE LET r   == m.obj[rhs]
           f   == Free(m, m.obj[v].buffer_)
           a   == IF r.size_ > 0 THEN Allocate(f, r.capacity_) ELSE f
           buf == IF r.size_ > 0 THEN NewArray(f) ELSE m.obj[v].buffer_
           rd  == Access(a, r.buffer_, 0, r.size_)
           wr  == Access(rd, buf, 0, r.size_)
       IN  [wr EXCEPT !.obj[v].buffer_ = buf,
                      !.obj[v].size_ = r.size_,
                      !.obj[v].capacity_ = r.capacity_]

mem_ReallocVector(m, v, new_capacity) ==
  LET o   == m.obj[v]
      tmp == NewArray(m)
      rd  == Access(Allocate(m, new_capacity), o.buffer_, 0, o.size_)
      wr  == Access(rd, tmp, 0, o.size_)
  IN  [Free(wr, o.buffer_) EXCEPT !.obj[v].buffer_ = tmp,
                                  !.obj[v].capacity_ = new_capacity]

mem_reserve(m, v, new_cap) ==
  IF new_cap <= m.obj[v].capacity_ THEN m
  ELSE mem_ReallocVector(m, v, new_cap)

mem_shrink_to_fit(m, v) ==
  IF m.obj[v].capacity_ = m.obj[v].size_ THEN m
  ELSE mem_ReallocVector(m, v, m.obj[v].size_)

mem_clear(m, v) == [m EXCEPT !.obj[v].size_ = 0]

\* insert(pos, value) of lines 347-384, index = pos - begin()
mem_insert(m, v, index) ==
  IF index > m.obj[v].size_ THEN m
  ELSE LET o == m.obj[v]
           r == IF o.size_ = o.capacity_
                THEN mem_ReallocVector(m, v,
                                       IF o.size_ # 0 THEN o.size_ * 2 ELSE 1)
                ELSE m
           w == Access(r, r.obj[v].buffer_, index, o.size_ + 1)
       IN  [w EXCEPT !.obj[v].size_ = o.size_ + 1]

\* the loop of insert(pos, args...) over k arguments
RECURSIVE mem_InsertItems(_, _, _, _)
mem_InsertItems(m, v, id, k) ==
  IF k = 0 \/ id > m.obj[v].size_ THEN m
  ELSE mem_InsertItems(mem_insert(m, v, id), v, id + 1, k - 1)

\* insert(const_iterator pos, Args &&...args) with k arguments
mem_insert_args(m, v, index, k) ==
  mem_InsertItems(mem_reserve(m, v, m.obj[v].capacity_ + k), v, index, k)

mem_erase(m, v, index) ==
  IF index >= m.obj[v].size_ THEN m
  ELSE [Access(m, m.obj[v].buffer_, 0, m.obj[v].size_)
          EXCEPT !.obj[v].size_ = m.obj[v].size_ - 1]

mem_push_back(m, v) ==
  LET o == m.obj[v]
      r == IF o.size_ = o.capacity_
           THEN mem_reserve(m, v, IF o.size_ # 0 THEN o.size_ * 2 ELSE 1)
           ELSE m
      w == Access(r, r.obj[v].buffer_, o.size_, o.size_ + 1)
  IN  [w EXCEPT !.obj[v].size_ = o.size_ + 1]

mem_pop_back(m, v) ==
  IF m.obj[v].size_ # 0 THEN [m EXCEPT !.obj[v].size_ = @ - 1] ELSE m

\* no vector object yet
InitMem == Start(Construct(Construct(EmptyHeap, "A"), "B"))

\* a member function has run and left r; the run stops where undefined
\* behaviour was reached
MemStep(r) ==
  /\ mem.fault = "none"
  /\ Len(r.len) <= MaxArrays
  /\ \A v \in VecIds : r.obj[v].capacity_ <= MaxVecCap
  /\ mem' = r
  /\ UNCHANGED <<listVars, vec, tree_, obs>>

Constructed == {v \in VecIds : mem.obj[v].alive}

MemConstruct ==
  \E v \in VecIds \ Constructed :
    \/ MemStep(mem_vector(mem, v))
    \/ \E n \in 0..MaxVecLen : MemStep(mem_vector_init(mem, v, n))
    \/ \E n \in 0..MaxVecLen : MemStep(mem_vector_sized(mem, v, n))

MemCopyConstruct ==
  \E v \in VecIds \ Constructed : \E rhs \in Constructed :
    MemStep(mem_copy_construct(mem, v, rhs))

MemMoveConstruct ==
  \E v \in VecIds \ Constructed : \E rhs \in Constructed :
    MemStep(mem_move_construct(mem, v, rhs))

MemDestroy == \E v \in Constructed : MemStep(mem_destroy(mem, v))

MemCopyAssign == \E v \in Constructed : \E rhs \in Constructed :
                   MemStep(mem_copy_assign(mem, v, rhs))

MemMoveAssign == \E v \in Constructed : \E rhs \in Constructed :
                   MemStep(mem_move_assign(mem, v, rhs))

MemSwap == \E v \in Constructed : \E other \in Constructed :
             MemStep(mem_swap(mem, v, other))

MemReserve == \E v \in Constructed : \E n \in 0..MaxVecCap :
                MemStep(mem_reserve(mem, v, n))

MemShrinkToFit == \E v \in Constructed : MemStep(mem_shrink_to_fit(mem, v))

MemClear == \E v \in Constructed : MemStep(mem_clear(mem, v))

MemInsert == \E v \in Constructed : \E index \in 0..mem.obj[v].capacity_ :
               \/ MemStep(mem_insert(mem, v, index))
               \/ MemStep(mem_insert_args(mem, v, index, 1))

MemErase == \E v \in Constructed : \E index \in 0..mem.obj[v].capacity_ :
              MemStep(mem_erase(mem, v, index))

MemPushBack == \E v \in Constructed : MemStep(mem_push_back(mem, v))

MemPopBack == \E v \in Constructed : MemStep(mem_pop_back(mem, v))

NextMem == \/ MemConstruct \/ MemCopyConstruct \/ MemMoveConstruct
           \/ MemDestroy \/ MemCopyAssign \/ MemMoveAssign \/ MemSwap
           \/ MemReserve \/ MemShrinkToFit \/ MemClear
           \/ MemInsert \/ MemErase \/ MemPushBack \/ MemPopBack

SpecMem == InitMem /\ [][NextMem]_vars

\* C31: in every reachable vector state size <= capacity; when capacity > 0,
\* buffer_ is a live array of exactly capacity slots; buffer_ is never an
\* array already freed; no access lands outside live storage and no array is
\* freed twice
C31_BufferIsALiveArray ==
  /\ mem.fault = "none"
  /\ \A v \in Constructed :
       LET o == mem.obj[v]
       IN  /\ o.size_ <= o.capacity_
           /\ o.capacity_ > 0 =>
                (o.buffer_ \in mem.live /\ mem.len[o.buffer_] = o.capacity_)
           /\ o.buffer_ \notin mem.freed

\* ---------------------------------------------------------------------------
\* the calls of quick_sort
\* ---------------------------------------------------------------------------

\* the node reached from n by k steps of ++it
RECURSIVE Forward(_, _)
Forward(n, k) == IF k = 0 THEN n ELSE Forward(next_[n], k - 1)

\* the nodes of the range of call f, left to right
RangeOf(f) == [i \in 1..f.list_size |-> Forward(f.left, i - 1)]

\* the calls in progress that took a pivot
Pivoted == {i \in 1..Len(qs) : qs[i].pivot_it # Null}

C34_PartitionedWhenRecursing ==
  (pc = "sort" /\ Top.at = "left") =>
     LET f == Top
         n == f.list_size
         R == RangeOf(f)
         l == f.next_step_left_size
         g == f.next_step_right_size
         e == n - l - g
     IN  /\ R[1] = f.left /\ R[n] = f.right
         /\ l >= 0 /\ g >= 0 /\ e >= 1
         /\ \A i \in 1..n :
              /\ i <= l => value_[R[i]] < f.pivot
              /\ (l < i /\ i <= l + e) => value_[R[i]] = f.pivot
              /\ l + e < i => value_[R[i]] > f.pivot
         /\ f.next_step_left = (IF l = 0 THEN prev_[f.left] ELSE R[l])
         /\ f.next_step_right = (IF g = 0 THEN next_[f.right] ELSE R[n - g + 1])
         /\ swapped \subseteq Range(R)

\* a call is about to recurse with smaller and greater elements around the
\* pivot in its range
C34_Witness ==
  /\ pc = "sort" /\ Top.at = "left"
  /\ Top.next_step_left_size >= 1 /\ Top.next_step_right_size >= 1
  /\ swapped # {}

\* every call in progress has a smaller count than its caller
CountsDecrease ==
  \A i \in 2..Len(qs) : qs[i].list_size < qs[i - 1].list_size

\* C35: sort() terminates: the partition loops end, every recursive
\* quick_sort call has a count strictly smaller than its caller's, and the
\* call of sort() returns
C35_SortTerminates ==
  /\ [](pc = "sort" => CountsDecrease)
  /\ (pc = "sort") ~> (pc = "idle")

\* a sort of four elements that went three calls deep has returned
C35_Witness ==
  /\ pc = "idle" /\ op.name = "sort" /\ qs = <<>>
  /\ size_[op.list] = 4
  /\ CurSeq(op.list) # PreSeq(op.list)

\* the steps of quick_sort leave what sort() as one step leaves
SortStepsAgree ==
  (pc = "idle" /\ op.name = "sort") =>
     /\ value_ = sort(pre, op.list).value_
     /\ next_ = pre.next_ /\ prev_ = pre.prev_
     /\ IsSorted(CurSeq(op.list))

\* the observed pop was made on an empty list
PopOnEmpty == op.name \in PopNames /\ pre.size_[op.list] = 0

\* C36: pop_front() and pop_back() on an empty list, and queue::pop() and
\* stack::pop() on an empty adapter, change nothing: size() is still 0 and
\* not below it, the sentinel is still allocated and linked to itself in both
\* directions, and a push that follows yields the one-element list of the
\* pushed value with I1 to I4 holding.
C36_PopOnEmptyChangesNothing ==
  /\ (Idle /\ calls >= 1 /\ PopOnEmpty) =>
       /\ HeapAsBefore
       /\ size_[op.list] = 0
       /\ head_[op.list] \in live
       /\ next_[head_[op.list]] = head_[op.list]
       /\ prev_[head_[op.list]] = head_[op.list]
  /\ (Idle /\ op.name = "push_after_pop" /\ pre.size_[op.list] = 0) =>
       /\ CurSeq(op.list) = op.args
       /\ size_[op.list] = 1
       /\ head_ = pre.head_
       /\ RingInvariants(Heap, op.list)

\* pop_back() called twice on a list that was filled and emptied again
C36_Witness ==
  /\ Idle /\ calls = 2 /\ PopOnEmpty /\ op.name = "pop_back"
  /\ SomeNodeFreed

\* a push after stack::pop() on an empty stack
C36_PushWitness ==
  /\ Idle /\ op.name = "push_after_pop" /\ pre.size_[op.list] = 0
  /\ orig.size_[op.list] = 0

\* the members that only relink nodes or exchange values
RelinkNames == {"splice", "merge", "reverse", "sort"}

\* the element nodes and the sentinels of the two lists of the observed call
NodesOfCall(h) == RingNodes(h, op.list) \cup RingNodes(h, op.other)

C37_UniqueWitness ==
  /\ Idle /\ op.name = "unique" /\ calls = 1
  /\ Cardinality(pre.live \ live) = 2

\* the merge in steps ends in the heap that merge(other) as one operator gives
MergeStepsAgree ==
  (Idle /\ op.name = "merge") => Heap = merge(pre, op.list, op.other)

\* C38: while merge(other) runs with other distinct from this list, each time
\* the loop condition and the comparison are reached I1 to I4 hold on both
\* lists, size_ of each list is the number of element nodes in its own ring,
\* the two sizes add up to their sum at entry, no node is in both rings and
\* none is in neither, and each of the two cursors is in the ring of its list.
C38_MergeLoopKeepsBothLists ==
  (pc = "merge") =>
     /\ op.other # op.list
     /\ \A l \in {op.list, op.other} :
          /\ RingInvariants(Heap, l)
          /\ size_[l] = Len(CurNodes(l))
     /\ size_[op.list] + size_[op.other] =
          pre.size_[op.list] + pre.size_[op.other]
     /\ RingNodes(Heap, op.list) \cap RingNodes(Heap, op.other) = {}
     /\ NodesOfCall(Heap) = NodesOfCall(pre)
     /\ mg.this_begin \in RingNodes(Heap, op.list)
     /\ mg.other_begin \in RingNodes(Heap, op.other)
     /\ mg.this_end = head_[op.list] /\ mg.other_end = head_[op.other]

\* the loop is reached again after a node of other went over, with nodes
\* left on both sides
C38_Witness ==
  /\ pc = "merge"
  /\ size_[op.list] > pre.size_[op.list]
  /\ mg.this_begin # mg.this_end /\ mg.other_begin # mg.other_end

====
